---- MODULE Spec2Model ----
(***************************************************************************)
(* Session persistence of the WhatsApp API server: the retrying            *)
(* PostgresStore (waitForExistingPath + waitForStableFile + save with      *)
(* bounded retries and exponential backoff), its store operations          *)
(* (extract, delete, sessionExists) on the table wweb_sessions, and the    *)
(* external processes it races with: the library that exports the session  *)
(* archive <session>.zip, external cleanup, and the database going down.   *)
(*                                                                         *)
(* Time is counted in poll intervals (interval = 200 ms): a sleep(interval)*)
(* advances `elapsed` by one tick.                                         *)
(***************************************************************************)
EXTENDS Integers, Sequences, FiniteSets, TLC

\* ------------------------------------------------------------------ bounds
\* Length of a fully written session archive, in bytes.
MaxLen == 2
\* waitForExistingPath's timeout in poll intervals (45000 ms / 200 ms in the code).
PathTimeoutTicks == 1
\* waitForStableFile's timeout in poll intervals (10000 ms / 200 ms in the code).
StableTimeoutTicks == 2
\* How many steps the external processes (exporter, cleanup, database) take.
MaxEnvSteps == 3

\* ------------------------------------------------------- program constants
\* (variant: one attempt fewer)
MaxAttemptsMut == 3 - 1
\* const maxAttempts = 3
MaxAttempts == 3
\* 500 * Math.pow(2, attempt - 1)
BackoffBaseMs == 500
\* let lastSize = -1
InitialLastSize == -1

\* The keys of table wweb_sessions: the session of this process (one logical
\* session per process: the clientId of its RemoteAuth strategy) and the
\* session of another instance that shares the table.
OwnSession == "main"
OtherSession == "alt"
Sessions == {OwnSession, OtherSession}

\* The two archives the exporter can produce: equal length, different bytes.
PayloadA == [i \in 1..MaxLen |-> i]
PayloadB == [i \in 1..MaxLen |-> MaxLen + 1 - i]
Payloads == {PayloadA, PayloadB}

\* A file of the filesystem: absent, or present with its bytes.
NoFile == [exists |-> FALSE, data |-> <<>>]
FileOf(bytes) == [exists |-> TRUE, data |-> bytes]

IsPrefix(s, t) == Len(s) <= Len(t) /\ SubSeq(t, 1, Len(s)) = s

\* ------------------------------------------------------------ pure helpers
\* (variant: the auth-data path first)
CandidatePathsMut(session) == << <<session, "auth">>, <<session, "cwd">> >>
\* [path.resolve(`${session}.zip`), path.resolve('.wwebjs_auth', `${session}.zip`)]
CandidatePaths(session) == << <<session, "cwd">>, <<session, "auth">> >>

\* The archive paths of this process's session.
Paths == {CandidatePaths(OwnSession)[i] : i \in 1..Len(CandidatePaths(OwnSession))}

\* (variant: a constant backoff, no doubling)
BackoffMsMut(attempt) == BackoffBaseMs
\* const backoffMs = 500 * Math.pow(2, attempt - 1)
BackoffMs(attempt) == BackoffBaseMs * 2^(attempt - 1)

\* (variant: the size > 0 guard is missing, so an empty file counts as stable)
IsStableZeroMut(size, lastSize) == size = 0 \/ size = lastSize
\* (variant: any non-empty file counts as stable)
IsStableMut(size, lastSize) == size > 0
\* if (stats.size > 0) { if (stats.size === lastSize) return true; ... }
IsStable(size, lastSize) == size > 0 /\ size = lastSize

\* (variant: the row becomes visible before its last byte is written)
UpsertPartialMut(table, key, data) ==
    {r \in table : r.key # key}
        \cup {[key |-> key, data |-> SubSeq(data, 1, Len(data) - 1)]}
\* (variant: UPDATE without INSERT)
UpsertUpdateOnly(table, key, data) ==
    {IF r.key = key THEN [key |-> key, data |-> data] ELSE r : r \in table}
\* (variant: INSERT without ON CONFLICT, on a table with no primary key)
UpsertMut(table, key, data) == table \cup {[key |-> key, data |-> data]}
\* INSERT ... VALUES ($1, $2) ON CONFLICT (session_key) DO UPDATE SET session_data = $2
Upsert(table, key, data) ==
    {r \in table : r.key # key} \cup {[key |-> key, data |-> data]}

\* (variant: a DELETE that matches no row)
DeleteRowsMut(table, key) == table
\* DELETE FROM wweb_sessions WHERE session_key = $1
DeleteRows(table, key) == {r \in table : r.key # key}

\* SELECT session_data FROM wweb_sessions WHERE session_key = $1
SelectRows(table, key) == {r \in table : r.key = key}

\* (variant: the row count is not looked at)
RowCountPositiveMut(table, key) == TRUE
\* result.rowCount > 0
RowCountPositive(table, key) == Cardinality(SelectRows(table, key)) > 0

\* ---------------------------------------------------------------- state
VARIABLES
    fs,              \* the archive files: path -> file
    denied,          \* paths whose directory refuses access (EACCES)
    writer,          \* the exporter that is writing an archive byte by byte
    dbUp,            \* whether pool.query succeeds
    rows,            \* table wweb_sessions: a set of [key, data]
    initPromise,     \* this._initPromise: "null" or "resolved"
    dest,            \* the file at extract's target path
    pc,              \* where the running save() is
    session,         \* save's options.session
    attempt,         \* save's attempt counter
    elapsed,         \* Date.now() - startTime of the running wait, in ticks
    idx,             \* waitForExistingPath: the candidate checked next
    lastSize,        \* waitForStableFile's lastSize
    sessionFilePath, \* the path waitForExistingPath returned
    fileBuffer,      \* what readFile returned
    lastError,       \* save's lastError
    backoffs,        \* the backoff waits of this save(), in ms, in order
    obs,             \* history: what waitForStableFile's last two polls observed
    h,               \* history: what happened during the running save()
    saved,           \* history: per key, the successful saves and deletes
    last,            \* history: the last completed extract/delete/sessionExists
    budget,          \* steps left to the external processes
    destDir,         \* whether the directory of extract's target path exists
    callers,         \* init(): where each concurrent caller of init() is
    schemaQueries,   \* init(): the schema queries issued and not yet settled
    jrows,           \* JSON-text store: table wweb_sessions, a set of [key, text]
    jpc,             \* JSON-text store: where the running extract() is
    jlast,           \* history: the last completed operation of the JSON-text store
    jgone,           \* history: keys whose corrupt record extract() has deleted
    wrows,           \* DatabaseManager: table whatsapp_sessions
    isConnected,     \* DatabaseManager: this.isConnected
    alast,           \* history: the last completed call of WhatsAppAPIDatabaseStore
    asaved,          \* history: the sessions saved through it and not deleted since
    spc,             \* simple store: where the running save() is
    sbuf,            \* simple store: what readFileSync returned
    slast,           \* history: the last completed save() of the simple store
    clast,           \* history: the last completed checkConnection()
    webhookUrl,      \* server.js: webhookUrl
    webhookEnabled,  \* server.js: webhookEnabled
    isReady,         \* server.js: isReady
    qrString,        \* server.js: qrString
    stateFile,       \* server.js: the JSON object in the file at STATE_PATH
    handling,        \* server.js: message handlers that are between their check and their POST
    envUrl,          \* server.js: process.env.WEBHOOK_URL, once the process has started
    wh,              \* history: the last request, message, POST and restart of server.js
    status,          \* index.js: status
    client,          \* index.js: client
    qrCode,          \* index.js: qrCode
    initializing,    \* index.js: initializing
    initializePromise, \* index.js: initializePromise (0 is null; otherwise the number of the attempt)
    inits,           \* history: how many attempts initialize() has started
    awaited,         \* index.js: the promise restartClient() is awaiting (0: none)
    restarting,      \* index.js: restarting
    ipc,             \* index.js: where the running initialize() is
    rpc,             \* index.js: where the running restartClient() is
    sending,         \* index.js: calls of client.sendMessage that have not settled
    ih,              \* history: the last step of index.js and what the client has emitted
    manager,         \* WhatsAppManager: this.client, this.status, this.isInitializing, this.handlersSetup
    live,            \* WhatsAppManager: the Client objects constructed and not destroyed
    wired,           \* WhatsAppManager: the Client objects the event handlers are registered on
    created,         \* WhatsAppManager: how many Client objects have been constructed
    mcalls,          \* WhatsAppManager: where each running initialize() or logout() is
    timers,          \* WhatsAppManager: auto-reconnect timers that have not fired
    mh,              \* history: the last step of the manager
    lockFile,        \* lock-manager.js: the file LOCK_FILE, with the age of its mtime in ticks
    lpc,             \* lock-manager.js: where each process's acquireLock() is
    holders,         \* history: the processes whose acquireLock() returned true and that have not called releaseLock() since
    lh,              \* history: the last call of acquireLock() that returned or threw
    webhookConfig,   \* database.js: the rows of the table webhook_config
    webhookSeq,      \* database.js: the last value of the sequence behind webhook_config.id (SERIAL)
    glast            \* history: the last call of setWebhookUrl or getWebhookUrl, and the URL set last

NoPath == <<"", "">>
\* No poll yet: -2 stands for 'not polled', -1 for ENOENT.
NoObs == <<-2, -2>>
storeVars == <<rows, initPromise, dest>>
saveVars == <<pc, session, attempt, elapsed, idx, lastSize, sessionFilePath,
              fileBuffer, lastError, backoffs, obs>>
envVars == <<fs, denied, writer, dbUp, budget>>
\* The variables of the other components: the concurrent callers of init(),
\* the JSON-text store, and the database-backed store adapter.
initVars == <<callers, schemaQueries>>
jsonVars == <<jrows, jpc, jlast, jgone>>
adapterVars == <<wrows, isConnected, alast, asaved>>
\* The simple store (save without retries, which cleans up the archive).
simpleVars == <<spc, sbuf, slast>>
\* The health check.
healthVars == <<clast>>
\* The webhook configuration of server.js and its state file.
serverVars == <<webhookUrl, webhookEnabled, isReady, qrString, stateFile,
                handling, envUrl, wh>>
\* The REST state of index.js.
indexVars == <<status, client, qrCode, initializing, initializePromise, inits,
               awaited, restarting, ipc, rpc, sending, ih>>
\* WhatsAppManager of whatsapp-client.js.
managerVars == <<manager, live, wired, created, mcalls, timers, mh>>
\* The session lock of lock-manager.js.
lockVars == <<lockFile, lpc, holders, lh>>
\* The webhook_config table of database.js.
configVars == <<webhookConfig, webhookSeq, glast>>
appVars == <<simpleVars, healthVars, serverVars, indexVars, managerVars, lockVars, configVars>>
otherVars == <<initVars, jsonVars, adapterVars, appVars>>
vars == <<fs, denied, writer, dbUp, rows, initPromise, dest, pc, session,
          attempt, elapsed, idx, lastSize, sessionFilePath, fileBuffer,
          lastError, backoffs, obs, h, saved, last, budget, destDir,
          otherVars>>

NoWriter == [active |-> FALSE, path |-> NoPath, target |-> <<>>]

\* How many callers call init() concurrently.
MaxCallers == 3
Callers == 1..MaxCallers

NoJLast == [op |-> "none", key |-> "", out |-> "none", parseFailed |-> FALSE,
            wasGone |-> FALSE, db |-> TRUE, others |-> TRUE]
JIdle == [at |-> "idle", key |-> ""]
NoALast == [op |-> "none", session |-> "", shape |-> "none", out |-> "none",
            value |-> "", connected |-> FALSE, wasSaved |-> FALSE]
\* server.js: null, the webhook URLs a request can set, and the URL of the
\* environment variable WEBHOOK_URL.
NoUrl == "null"
Urls == {"u1", "u2"}
EnvUrl == "uenv"
\* The server process has not been started yet.
NotStarted == "not started"
NoQr == "null"
\* The state file: absent, or a JSON object with or without the webhook keys.
NoStateFile == [exists |-> FALSE, hasWebhook |-> FALSE, webhookUrl |-> NoUrl,
                webhookEnabled |-> FALSE, ready |-> FALSE, hasQR |-> FALSE]
\* step is the last thing server.js did, urlPrev and enabledPrev the webhook
\* configuration before it; reported is the ready field of the answer when
\* the last step was GET /api/status.
NoWh == [step |-> "none", urlPrev |-> NoUrl, enabledPrev |-> FALSE,
         code |-> 0, fired |-> FALSE,
         apiConfigured |-> FALSE, disabledByDelete |-> FALSE,
         reported |-> FALSE]
\* index.js: let initializePromise = null;
NoPromise == 0
\* How many attempts initialize() starts.
MaxInits == 2
\* index.js: let client; (no client object yet, or client = null)
NoClient == "null"
\* step is the last thing index.js did, statusPrev and clientPrev the state
\* before it; disconnected: the client has emitted 'disconnected' and no
\* 'ready' since.
NoIh == [step |-> "none", statusPrev |-> "initializing", clientPrev |-> NoClient,
         code |-> 0, called |-> FALSE, disconnected |-> FALSE,
         reported |-> "none", returned |-> NoPromise]
\* WhatsAppManager's constructor; client 0 is null.
NoPhone == "null"
NewManager == [client |-> 0, status |-> "disconnected", qrCode |-> NoQr,
               phoneNumber |-> NoPhone, isInitializing |-> FALSE,
               keepAlive |-> FALSE, handlersSetup |-> FALSE]
\* How many calls of initialize() and logout() can run at once.
MaxCalls == 2
Calls == 1..MaxCalls
\* How many Client objects are constructed.
MaxClients == 3
\* How many auto-reconnect timers can be pending.
MaxTimers == 1
IdleCall == [at |-> "idle", target |-> 0]
\* step is "timer" when the last step was a timer firing and "ignored" when
\* it was a 'disconnected' event that was ignored; timer is what the last
\* auto-reconnect timer did; interfered: destroy() or logout() has been called
\* since the last 'disconnected' that scheduled a timer.
NoMh == [step |-> "none", started |-> FALSE, timer |-> "none",
         interfered |-> FALSE]
\* How many server processes share the working directory.
MaxProcs == 3
Procs == 1..MaxProcs
\* STALE_THRESHOLD (60 seconds) in clock ticks.
StaleTicks == 2
NoLock == [exists |-> FALSE, age |-> 0, owner |-> 0]
NoLh == [proc |-> 0, out |-> "none", holder |-> FALSE]
\* How many rows webhook_config gets.
MaxConfigs == 3
NoGLast == [op |-> "none", out |-> "none", url |-> NoUrl, latest |-> NoUrl]
NoSLast == [out |-> "none", existedBefore |-> FALSE, existsAfter |-> FALSE,
            persisted |-> FALSE]
NoCLast == [out |-> "none", db |-> TRUE]
NoLast == [op |-> "none", key |-> "", out |-> "none", was |-> "never",
           db |-> TRUE, wrote |-> FALSE, changed |-> FALSE]
\* scen sums up the external steps taken during the running save():
\*   "quiet"    none;
\*   "appeared" one: an archive was put in place before the first
\*              waitForExistingPath timed out;
\*   "growing"  only bytes written by the exporter;
\*   "other"    anything else.
NoHist == [absentAtCall |-> FALSE, dbAtCall |-> TRUE, writerAtCall |-> NoWriter,
           existed |-> FALSE, scen |-> "quiet", put |-> <<>>,
           storeErrAt |-> 0, initFailed |-> FALSE, doneAtRead |-> FALSE,
           rowsAtCall |-> {}]

InFlight == pc \in {"loop", "waitPath", "waitStable", "read", "upsert"}

CandidateSet(s) == {CandidatePaths(s)[i] : i \in 1..Len(CandidatePaths(s))}
SomeCandidateExists(files, s) == \E p \in CandidateSet(s) : files[p].exists

Init ==
    /\ fs = [p \in Paths |-> NoFile]
    /\ denied = {}
    /\ writer = NoWriter
    /\ dbUp = TRUE
    /\ rows = {[key |-> OtherSession, data |-> PayloadB]}
    /\ initPromise = "null"
    /\ dest = NoFile
    /\ pc = "idle"
    /\ session = ""
    /\ attempt = 0
    /\ elapsed = 0
    /\ idx = 1
    /\ lastSize = InitialLastSize
    /\ sessionFilePath = NoPath
    /\ fileBuffer = <<>>
    /\ lastError = "none"
    /\ backoffs = <<>>
    /\ obs = NoObs
    /\ h = NoHist
    /\ saved = [s \in Sessions |->
                  IF s = OtherSession
                    THEN [state |-> "saved", blobs |-> <<PayloadB>>]
                    ELSE [state |-> "never", blobs |-> <<>>]]
    /\ last = NoLast
    /\ budget = MaxEnvSteps
    /\ destDir = FALSE
    /\ callers = [c \in Callers |-> "idle"]
    /\ schemaQueries = 0
    /\ jrows = {}
    /\ jpc = JIdle
    /\ jlast = NoJLast
    /\ jgone = {}
    /\ wrows = {}
    /\ isConnected = FALSE
    /\ alast = NoALast
    /\ asaved = {}
    /\ spc = "idle"
    /\ sbuf = <<>>
    /\ slast = NoSLast
    /\ clast = NoCLast
    /\ webhookUrl = NoUrl
    /\ webhookEnabled = FALSE
    /\ isReady = FALSE
    /\ qrString = NoQr
    /\ stateFile = NoStateFile
    /\ handling = 0
    /\ envUrl = NotStarted
    /\ wh = NoWh
    /\ status = "initializing"
    /\ client = NoClient
    /\ qrCode = NoQr
    /\ initializing = FALSE
    /\ initializePromise = NoPromise
    /\ inits = 0
    /\ awaited = NoPromise
    /\ restarting = FALSE
    /\ ipc = "not started"
    /\ rpc = "idle"
    /\ sending = 0
    /\ ih = NoIh
    /\ manager = NewManager
    /\ live = {}
    /\ wired = {}
    /\ created = 0
    /\ mcalls = [c \in Calls |-> IdleCall]
    /\ timers = 0
    /\ mh = NoMh
    /\ lockFile = NoLock
    /\ lpc = [p \in Procs |-> "idle"]
    /\ holders = {}
    /\ lh = NoLh
    /\ webhookConfig = {}
    /\ webhookSeq = 0
    /\ glast = NoGLast


\* ------------------------------------------------------------ init()
\* init(): the schema query is issued only while _initPromise is null; a
\* rejected query resets _initPromise to null and is rethrown.
InitFails == initPromise = "null" /\ ~dbUp
InitPromiseAfter == IF InitFails THEN "null" ELSE "resolved"

\* ------------------------------------------------- the store operations
\* The store operations are called one after the other by the library's
\* RemoteAuth strategy, never while a save() of this store is running.

\* The SQL NULL in column session_data: no byte string.
Null == <<-1>>

\* (variant: an empty blob is taken for no data)
FalsyMut(data) == data = Null \/ Len(data) = 0
\* !result.rows[0].session_data, of a column that pg returns as a Buffer or as
\* null: null is falsy, a Buffer is truthy whatever its length.
Falsy(data) == data = Null

\* await fs.promises.mkdir(path.dirname(absolutePath), { recursive: true }):
\* afterwards the directory exists, whether or not it did.
MkdirRecursive(dir) == TRUE

\* await fs.promises.writeFile(absolutePath, sessionData): the file holds
\* exactly the bytes, or ENOENT when its directory is missing.
WriteFile(dir, file, bytes) == IF dir THEN FileOf(bytes) ELSE file

\* extract({session, path})
Extract(k) ==
    /\ pc = "idle"
    /\ initPromise' = InitPromiseAfter
    /\ IF InitFails \/ ~dbUp
         THEN /\ UNCHANGED <<dest, destDir>>
              /\ last' = [op |-> "extract", key |-> k, out |-> "error",
                          was |-> saved[k].state, db |-> dbUp,
                          wrote |-> FALSE, changed |-> FALSE]
         ELSE IF SelectRows(rows, k) = {}
           THEN /\ UNCHANGED <<dest, destDir>>
                /\ last' = [op |-> "extract", key |-> k, out |-> "absent",
                            was |-> saved[k].state, db |-> dbUp,
                            wrote |-> FALSE, changed |-> FALSE]
           ELSE \E r \in SelectRows(rows, k) :
                IF Falsy(r.data)
                  THEN /\ UNCHANGED <<dest, destDir>>
                       /\ last' = [op |-> "extract", key |-> k, out |-> "absent",
                                   was |-> saved[k].state, db |-> dbUp,
                                   wrote |-> FALSE, changed |-> FALSE]
                  ELSE /\ destDir' = MkdirRecursive(destDir)
                       /\ dest' = WriteFile(destDir', dest, r.data)
                       /\ last' = [op |-> "extract", key |-> k,
                                   out |-> IF destDir' THEN "written" ELSE "error",
                                   was |-> saved[k].state, db |-> dbUp,
                                   wrote |-> destDir', changed |-> FALSE]
    /\ UNCHANGED <<rows, saved, h>>
    /\ UNCHANGED saveVars
    /\ UNCHANGED envVars
    /\ UNCHANGED otherVars

\* delete({session})
Delete(k) ==
    /\ pc = "idle"
    /\ initPromise' = InitPromiseAfter
    /\ IF InitFails \/ ~dbUp
         THEN /\ UNCHANGED <<rows, saved>>
              /\ last' = [op |-> "delete", key |-> k, out |-> "error",
                          was |-> saved[k].state, db |-> dbUp,
                          wrote |-> FALSE, changed |-> FALSE]
         ELSE /\ rows' = DeleteRows(rows, k)
              /\ saved' = [saved EXCEPT ![k] = [state |-> "deleted", blobs |-> <<>>]]
              /\ last' = [op |-> "delete", key |-> k, out |-> "ok",
                          was |-> saved[k].state, db |-> dbUp,
                          wrote |-> FALSE, changed |-> (rows' # rows)]
    /\ UNCHANGED <<dest, h>>
    /\ UNCHANGED saveVars
    /\ UNCHANGED envVars
    /\ UNCHANGED <<destDir, otherVars>>

\* sessionExists({session})
SessionExists(k) ==
    /\ pc = "idle"
    /\ initPromise' = InitPromiseAfter
    /\ last' = [op |-> "sessionExists", key |-> k,
                out |-> IF InitFails \/ ~dbUp THEN "error"
                        ELSE IF RowCountPositive(rows, k) THEN "true" ELSE "false",
                was |-> saved[k].state, db |-> dbUp,
                wrote |-> FALSE, changed |-> FALSE]
    /\ UNCHANGED <<rows, dest, saved, h>>
    /\ UNCHANGED saveVars
    /\ UNCHANGED envVars
    /\ UNCHANGED <<destDir, otherVars>>

\* ------------------------------------------------------------- save()
\* (variant: a missing file is a hard failure, rethrown by the catch block)
CatchEnoentMut(err) ==
    /\ lastError' = err
    /\ backoffs' = IF attempt < MaxAttempts /\ err # "ENOENT"
                     THEN Append(backoffs, BackoffMs(attempt))
                     ELSE backoffs
    /\ pc' = IF err = "ENOENT" THEN "thrown" ELSE "loop"
\* (variant: the catch block rethrows at once)
CatchMut(err) ==
    /\ lastError' = err
    /\ backoffs' = backoffs
    /\ pc' = "thrown"
\* The catch block of save's retry loop: remember the error and, while
\* attempts remain, wait the backoff; the loop condition decides the rest.
Catch(err) ==
    /\ lastError' = err
    /\ backoffs' = IF attempt < MaxAttempts
                     THEN Append(backoffs, BackoffMs(attempt))
                     ELSE backoffs
    /\ pc' = "loop"

\* save({session}) up to the loop: the candidate paths and await this.init().
SaveCall(k) ==
    /\ pc = "idle"
    /\ session' = k
    /\ initPromise' = InitPromiseAfter
    /\ attempt' = 0
    /\ backoffs' = <<>>
    /\ pc' = IF InitFails THEN "thrown" ELSE "loop"
    /\ lastError' = IF InitFails THEN "StoreError" ELSE "none"
    /\ h' = [NoHist EXCEPT
               !.absentAtCall = (~SomeCandidateExists(fs, k)
                                   /\ CandidateSet(k) \cap denied = {}),
               !.dbAtCall = dbUp,
               !.writerAtCall = writer,
               !.existed = SomeCandidateExists(fs, k),
               !.initFailed = InitFails,
               !.rowsAtCall = rows]
    /\ last' = NoLast
    /\ UNCHANGED <<rows, dest, saved, elapsed, idx, lastSize,
                   sessionFilePath, fileBuffer, obs>>
    /\ UNCHANGED envVars
    /\ UNCHANGED <<destDir, otherVars>>

\* while (attempt < maxAttempts) { attempt += 1; ... waitForExistingPath starts
AttemptStart ==
    /\ pc = "loop"
    /\ attempt < MaxAttempts
    /\ attempt' = attempt + 1
    /\ pc' = "waitPath"
    /\ elapsed' = 0
    /\ idx' = 1
    /\ UNCHANGED <<session, lastSize, sessionFilePath, fileBuffer, lastError,
                   backoffs, obs, h, saved, last>>
    /\ UNCHANGED storeVars
    /\ UNCHANGED envVars
    /\ UNCHANGED <<destDir, otherVars>>

\* the loop ends with every attempt failed: throw lastError
LoopExit ==
    /\ pc = "loop"
    /\ ~(attempt < MaxAttempts)
    /\ pc' = "thrown"
    /\ UNCHANGED <<session, attempt, elapsed, idx, lastSize, sessionFilePath,
                   fileBuffer, lastError, backoffs, obs, h, saved, last>>
    /\ UNCHANGED storeVars
    /\ UNCHANGED envVars
    /\ UNCHANGED <<destDir, otherVars>>

\* What await fs.promises.access(candidate, fs.constants.F_OK) gives: "ok", or
\* the code of the error it throws.
AccessCode(c) ==
    IF c \in denied THEN "EACCES"
    ELSE IF fs[c].exists THEN "ok"
    ELSE "ENOENT"

\* (variant: every error of access() is taken for an absence)
RethrownMut(code) == FALSE
\* catch (error) { if (error.code !== 'ENOENT') throw error; }
Rethrown(code) == code \notin {"ok", "ENOENT"}

\* waitForExistingPath: one fs.promises.access(candidate) of the current tick.
\* Found: return the candidate, and waitForStableFile starts. ENOENT: the next
\* candidate, or sleep(interval) after the last one. Any other error: thrown.
PathCheck ==
    /\ pc = "waitPath"
    /\ elapsed <= PathTimeoutTicks
    /\ LET c == CandidatePaths(session)[idx] IN
       IF Rethrown(AccessCode(c))
         THEN /\ Catch(AccessCode(c))
              /\ UNCHANGED <<elapsed, idx, sessionFilePath, lastSize, obs>>
         ELSE IF fs[c].exists
           THEN /\ sessionFilePath' = c
                /\ pc' = "waitStable"
                /\ elapsed' = 0
                /\ lastSize' = InitialLastSize
                /\ obs' = NoObs
                /\ UNCHANGED <<idx, lastError, backoffs>>
           ELSE /\ IF idx < Len(CandidatePaths(session))
                     THEN idx' = idx + 1 /\ elapsed' = elapsed
                     ELSE idx' = 1 /\ elapsed' = elapsed + 1
                /\ UNCHANGED <<pc, sessionFilePath, lastSize, obs, lastError,
                               backoffs>>
    /\ UNCHANGED <<session, attempt, fileBuffer, h, saved, last>>
    /\ UNCHANGED storeVars
    /\ UNCHANGED envVars
    /\ UNCHANGED <<destDir, otherVars>>

\* waitForExistingPath: the while condition fails, return null, and save
\* throws 'Session archive not found within timeout'.
PathTimeout ==
    /\ pc = "waitPath"
    /\ ~(elapsed <= PathTimeoutTicks)
    /\ Catch("NotFound")
    /\ UNCHANGED <<session, attempt, elapsed, idx, lastSize, sessionFilePath,
                   fileBuffer, obs, h, saved, last>>
    /\ UNCHANGED storeVars
    /\ UNCHANGED envVars
    /\ UNCHANGED <<destDir, otherVars>>

\* What fs.promises.stat(filePath) gives waitForStableFile: the size, or -1
\* for ENOENT.
Observed(p) == IF fs[p].exists THEN Len(fs[p].data) ELSE -1

\* waitForStableFile: one poll, then sleep(interval).
StablePoll ==
    /\ pc = "waitStable"
    /\ elapsed <= StableTimeoutTicks
    /\ IF sessionFilePath \in denied
         THEN /\ Catch("EACCES")
              /\ UNCHANGED <<elapsed, lastSize, obs>>
         ELSE /\ obs' = <<obs[2], Observed(sessionFilePath)>>
              /\ IF fs[sessionFilePath].exists
                      /\ IsStable(Len(fs[sessionFilePath].data), lastSize)
                   THEN /\ pc' = "read"
                        /\ UNCHANGED <<elapsed, lastSize>>
                   ELSE /\ lastSize' = IF fs[sessionFilePath].exists
                                            /\ Len(fs[sessionFilePath].data) > 0
                                         THEN Len(fs[sessionFilePath].data)
                                         ELSE lastSize
                        /\ elapsed' = elapsed + 1
                        /\ pc' = pc
              /\ UNCHANGED <<lastError, backoffs>>
    /\ UNCHANGED <<session, attempt, idx, sessionFilePath, fileBuffer, h,
                   saved, last>>
    /\ UNCHANGED storeVars
    /\ UNCHANGED envVars
    /\ UNCHANGED <<destDir, otherVars>>

\* waitForStableFile: throw 'File did not stabilise within ...'
StableTimeout ==
    /\ pc = "waitStable"
    /\ ~(elapsed <= StableTimeoutTicks)
    /\ Catch("Timeout")
    /\ UNCHANGED <<session, attempt, elapsed, idx, lastSize, sessionFilePath,
                   fileBuffer, obs, h, saved, last>>
    /\ UNCHANGED storeVars
    /\ UNCHANGED envVars
    /\ UNCHANGED <<destDir, otherVars>>

\* const fileBuffer = await fs.promises.readFile(sessionFilePath)
ReadFile ==
    /\ pc = "read"
    /\ IF sessionFilePath \in denied
         THEN Catch("EACCES") /\ UNCHANGED <<fileBuffer, h>>
         ELSE IF ~fs[sessionFilePath].exists
           THEN Catch("ENOENT") /\ UNCHANGED <<fileBuffer, h>>
           ELSE /\ fileBuffer' = fs[sessionFilePath].data
                /\ pc' = "upsert"
                /\ h' = [h EXCEPT !.doneAtRead =
                           (fs[sessionFilePath].data = writer.target)]
                /\ UNCHANGED <<lastError, backoffs>>
    /\ UNCHANGED <<session, attempt, elapsed, idx, lastSize, sessionFilePath,
                   obs, saved, last>>
    /\ UNCHANGED storeVars
    /\ UNCHANGED envVars
    /\ UNCHANGED <<destDir, otherVars>>

\* await this.pool.query('INSERT ... ON CONFLICT ... DO UPDATE ...'); return
UpsertQuery ==
    /\ pc = "upsert"
    /\ IF dbUp
         THEN /\ rows' = Upsert(rows, session, fileBuffer)
              /\ pc' = "returned"
              /\ saved' = [saved EXCEPT ![session] =
                    [state |-> "saved",
                     blobs |-> IF @.blobs = <<>> THEN <<fileBuffer>>
                               ELSE <<@.blobs[Len(@.blobs)], fileBuffer>>]]
              /\ UNCHANGED <<lastError, backoffs, h>>
         ELSE /\ Catch("StoreError")
              /\ h' = [h EXCEPT !.storeErrAt = IF @ = 0 THEN attempt ELSE @]
              /\ UNCHANGED <<rows, saved>>
    /\ UNCHANGED <<initPromise, dest, last>>
    /\ UNCHANGED <<session, attempt, elapsed, idx, lastSize, sessionFilePath,
                   fileBuffer, obs>>
    /\ UNCHANGED envVars
    /\ UNCHANGED <<destDir, otherVars>>

\* The caller of save() takes its outcome; the store is idle again.
SaveDone ==
    /\ pc \in {"returned", "thrown"}
    /\ pc' = "idle"
    /\ session' = ""
    /\ attempt' = 0
    /\ elapsed' = 0
    /\ idx' = 1
    /\ lastSize' = InitialLastSize
    /\ sessionFilePath' = NoPath
    /\ fileBuffer' = <<>>
    /\ lastError' = "none"
    /\ backoffs' = <<>>
    /\ obs' = NoObs
    /\ h' = NoHist
    /\ UNCHANGED <<saved, last>>
    /\ UNCHANGED storeVars
    /\ UNCHANGED envVars
    /\ UNCHANGED <<destDir, otherVars>>

\* ------------------------------------------------ the external processes
\* What an external step adds to the history of the running save().
Noted(kind, relevant, files) ==
    IF ~InFlight \/ ~relevant THEN h
    ELSE [h EXCEPT
            !.scen = IF /\ @ = "quiet"
                        /\ kind = "put"
                        /\ \/ attempt = 0
                           \/ /\ attempt = 1
                              /\ pc = "waitPath"
                              /\ elapsed <= PathTimeoutTicks
                       THEN "appeared"
                     ELSE IF @ \in {"quiet", "growing"} /\ kind = "write"
                       THEN "growing"
                     ELSE "other",
            !.existed = @ \/ SomeCandidateExists(files, session)]

OnCandidate(p) == InFlight /\ p \in CandidateSet(session)

\* The exporter moves a fully written archive into place.
EnvPut(p, t) ==
    /\ budget > 0
    /\ budget' = budget - 1
    /\ fs' = [fs EXCEPT ![p] = FileOf(t)]
    /\ writer' = IF writer.active /\ writer.path = p
                   THEN NoWriter ELSE writer
    /\ h' = [Noted("put", OnCandidate(p), fs') EXCEPT
                !.put = IF OnCandidate(p) THEN t ELSE @]
    /\ UNCHANGED <<denied, dbUp, saved, last>>
    /\ UNCHANGED storeVars
    /\ UNCHANGED saveVars
    /\ UNCHANGED <<destDir, otherVars>>

\* The exporter opens the archive for writing: it exists, with no bytes yet.
WriterStart(p) ==
    /\ budget > 0
    /\ ~writer.active
    /\ budget' = budget - 1
    /\ fs' = [fs EXCEPT ![p] = FileOf(<<>>)]
    /\ writer' = [active |-> TRUE, path |-> p, target |-> PayloadA]
    /\ h' = Noted("open", OnCandidate(p), fs')
    /\ UNCHANGED <<denied, dbUp, saved, last>>
    /\ UNCHANGED storeVars
    /\ UNCHANGED saveVars
    /\ UNCHANGED <<destDir, otherVars>>

\* The exporter writes the next byte of the archive.
WriterStep ==
    /\ budget > 0
    /\ writer.active
    /\ budget' = budget - 1
    /\ LET p == writer.path
           n == Len(fs[p].data) + 1 IN
       /\ fs' = [fs EXCEPT ![p] = FileOf(Append(fs[p].data, writer.target[n]))]
       /\ writer' = [writer EXCEPT !.active = (n < Len(writer.target))]
       /\ h' = Noted("write", OnCandidate(p), fs')
    /\ UNCHANGED <<denied, dbUp, saved, last>>
    /\ UNCHANGED storeVars
    /\ UNCHANGED saveVars
    /\ UNCHANGED <<destDir, otherVars>>

\* External cleanup removes an archive.
EnvRemove(p) ==
    /\ budget > 0
    /\ fs[p].exists
    /\ budget' = budget - 1
    /\ fs' = [fs EXCEPT ![p] = NoFile]
    /\ writer' = IF writer.active /\ writer.path = p
                   THEN NoWriter ELSE writer
    /\ h' = Noted("remove", OnCandidate(p), fs')
    /\ UNCHANGED <<denied, dbUp, saved, last>>
    /\ UNCHANGED storeVars
    /\ UNCHANGED saveVars
    /\ UNCHANGED <<destDir, otherVars>>

\* The permissions of a candidate's directory change.
EnvChmod(p) ==
    /\ budget > 0
    /\ budget' = budget - 1
    /\ denied' = IF p \in denied THEN denied \ {p} ELSE denied \cup {p}
    /\ h' = Noted("chmod", OnCandidate(p), fs)
    /\ UNCHANGED <<fs, writer, dbUp, saved, last>>
    /\ UNCHANGED storeVars
    /\ UNCHANGED saveVars
    /\ UNCHANGED <<destDir, otherVars>>

\* The database connection breaks or comes back.
DbToggle ==
    /\ budget > 0
    /\ budget' = budget - 1
    /\ dbUp' = ~dbUp
    /\ h' = Noted("db", InFlight, fs)
    /\ UNCHANGED <<fs, denied, writer, saved, last>>
    /\ UNCHANGED storeVars
    /\ UNCHANGED saveVars
    /\ UNCHANGED <<destDir, otherVars>>

\* ------------------------------------------------------- specification
SaveStep ==
    \/ SaveCall(OwnSession)
    \/ AttemptStart
    \/ LoopExit
    \/ PathCheck
    \/ PathTimeout
    \/ StablePoll
    \/ StableTimeout
    \/ ReadFile
    \/ UpsertQuery
    \/ SaveDone

\* save() of this process's session, racing with the exporter, external
\* cleanup, permission changes and the database.
Next ==
    \/ SaveStep
    \/ \E p \in Paths, t \in Payloads : EnvPut(p, t)
    \/ \E p \in Paths : WriterStart(p)
    \/ WriterStep
    \/ \E p \in Paths : EnvRemove(p)
    \/ \E p \in Paths : EnvChmod(p)
    \/ DbToggle

Spec == Init /\ [][Next]_vars

\* The store operations called one after the other, on both keys of the
\* table, with archives put in place and removed and the database going down
\* and up.
NextStore ==
    \/ SaveStep
    \/ \E k \in Sessions : Extract(k)
    \/ \E k \in Sessions : Delete(k)
    \/ \E k \in Sessions : SessionExists(k)
    \/ \E p \in Paths, t \in Payloads : EnvPut(p, t)
    \/ \E p \in Paths : EnvRemove(p)
    \/ DbToggle

SpecStore == Init /\ [][NextStore]_vars

\* Another client of the table leaves a row without data (the column
\* session_data has no NOT NULL constraint).
ExternalNull(k) ==
    /\ budget > 0
    /\ budget' = budget - 1
    /\ rows' = Upsert(rows, k, Null)
    /\ h' = Noted("db", InFlight, fs)
    /\ UNCHANGED <<initPromise, dest, destDir, saved, last>>
    /\ UNCHANGED <<fs, denied, writer, dbUp>>
    /\ UNCHANGED saveVars
    /\ UNCHANGED otherVars

\* save() and extract() called one after the other, with the exporter putting
\* archives in place or reopening (truncating) the archive, and rows without
\* data in the table.
NextLoad ==
    \/ SaveStep
    \/ \E k \in Sessions : Extract(k)
    \/ \E t \in Payloads : EnvPut(CandidatePaths(OwnSession)[1], t)
    \/ WriterStart(CandidatePaths(OwnSession)[1])
    \/ \E k \in Sessions : ExternalNull(k)

SpecLoad == Init /\ [][NextLoad]_vars

\* ------------------------------------------------- the JSON-text store
\* The variant of PostgresStore that keeps the session as JSON text in the
\* column session_data TEXT. Its operations issue their queries directly
\* (the constructor has called init()), one operation after the other.
coreVars == <<fs, denied, writer, dbUp, rows, initPromise, dest, pc, session,
              attempt, elapsed, idx, lastSize, sessionFilePath, fileBuffer,
              lastError, backoffs, obs, h, saved, last, budget, destDir>>

\* The session objects the library hands to save.
DataObjs == {"a", "b"}

\* JSON.stringify(data): the text of an object, token by token.
Stringify(d) == <<"{", d, "}">>
\* Whether JSON.parse(text) returns (TRUE) or throws a SyntaxError (FALSE).
ParseOk(t) == Len(t) = 3 /\ t[1] = "{" /\ t[3] = "}"
\* JSON.parse(text) of a text it accepts.
Parse(t) == t[2]

\* save({session, data})
JSave(k, d) ==
    /\ jpc.at = "idle"
    /\ IF dbUp
         THEN /\ jrows' = Upsert(jrows, k, Stringify(d))
              /\ jgone' = jgone \ {k}
         ELSE UNCHANGED <<jrows, jgone>>
    /\ jlast' = [NoJLast EXCEPT !.op = "save", !.key = k, !.db = dbUp,
                                !.out = IF dbUp THEN "ok" ELSE "error"]
    /\ UNCHANGED <<jpc, coreVars, initVars, adapterVars, appVars>>

\* extract({session}) up to the catch block: the SELECT and JSON.parse.
JExtract(k) ==
    /\ jpc.at = "idle"
    /\ IF ~dbUp
         THEN /\ jlast' = [NoJLast EXCEPT !.op = "extract", !.key = k,
                                          !.out = "error", !.db = FALSE,
                                          !.wasGone = (k \in jgone)]
              /\ jpc' = jpc
         ELSE IF SelectRows(jrows, k) = {}
           THEN /\ jlast' = [NoJLast EXCEPT !.op = "extract", !.key = k,
                                            !.out = "null",
                                            !.wasGone = (k \in jgone)]
                /\ jpc' = jpc
           ELSE \E r \in SelectRows(jrows, k) :
                IF ParseOk(r.data)
                  THEN /\ jlast' = [NoJLast EXCEPT !.op = "extract", !.key = k,
                                                   !.out = Parse(r.data),
                                                   !.wasGone = (k \in jgone)]
                       /\ jpc' = jpc
                  ELSE /\ jpc' = [at |-> "deleting", key |-> k]
                       /\ jlast' = jlast
    /\ UNCHANGED <<jrows, jgone, coreVars, initVars, adapterVars, appVars>>

\* (variant: the catch block logs and returns null, deleting nothing)
JExtractCatchMut ==
    /\ jpc.at = "deleting"
    /\ jpc' = JIdle
    /\ jgone' = jgone \cup {jpc.key}
    /\ jlast' = [NoJLast EXCEPT !.op = "extract", !.key = jpc.key,
                                !.out = "null", !.parseFailed = TRUE]
    /\ UNCHANGED <<jrows, coreVars, initVars, adapterVars, appVars>>
\* extract's catch block: await this.delete(options); return null.
JExtractCatch ==
    /\ jpc.at = "deleting"
    /\ jpc' = JIdle
    /\ IF dbUp
         THEN /\ jrows' = DeleteRows(jrows, jpc.key)
              /\ jgone' = jgone \cup {jpc.key}
              /\ jlast' = [NoJLast EXCEPT
                             !.op = "extract", !.key = jpc.key, !.out = "null",
                             !.parseFailed = TRUE,
                             !.others = ({r \in jrows' : r.key # jpc.key}
                                           = {r \in jrows : r.key # jpc.key})]
         ELSE /\ UNCHANGED <<jrows, jgone>>
              /\ jlast' = [NoJLast EXCEPT
                             !.op = "extract", !.key = jpc.key, !.out = "error",
                             !.parseFailed = TRUE, !.db = FALSE]
    /\ UNCHANGED <<coreVars, initVars, adapterVars, appVars>>

\* delete({session})
JDelete(k) ==
    /\ jpc.at = "idle"
    /\ jrows' = IF dbUp THEN DeleteRows(jrows, k) ELSE jrows
    /\ jlast' = [NoJLast EXCEPT !.op = "delete", !.key = k, !.db = dbUp,
                                !.out = IF dbUp THEN "ok" ELSE "error"]
    /\ UNCHANGED <<jpc, jgone, coreVars, initVars, adapterVars, appVars>>

\* sessionExists({session})
JSessionExists(k) ==
    /\ jpc.at = "idle"
    /\ jlast' = [NoJLast EXCEPT
                   !.op = "sessionExists", !.key = k, !.db = dbUp,
                   !.wasGone = (k \in jgone),
                   !.out = IF ~dbUp THEN "error"
                           ELSE IF RowCountPositive(jrows, k) THEN "true"
                           ELSE "false"]
    /\ UNCHANGED <<jrows, jpc, jgone, coreVars, initVars, adapterVars, appVars>>

\* Something outside the store cuts the stored text of a key short.
Corrupt(k) ==
    /\ budget > 0
    /\ \E r \in SelectRows(jrows, k) :
          /\ ParseOk(r.data)
          /\ jrows' = Upsert(jrows, k, SubSeq(r.data, 1, Len(r.data) - 1))
    /\ budget' = budget - 1
    /\ UNCHANGED <<fs, denied, writer, dbUp, rows, initPromise, dest, destDir,
                   h, saved, last>>
    /\ UNCHANGED saveVars
    /\ UNCHANGED <<jpc, jlast, jgone, initVars, adapterVars, appVars>>

NextJson ==
    \/ \E k \in Sessions, d \in DataObjs : JSave(k, d)
    \/ \E k \in Sessions : JExtract(k)
    \/ JExtractCatch
    \/ \E k \in Sessions : JDelete(k)
    \/ \E k \in Sessions : JSessionExists(k)
    \/ \E k \in Sessions : Corrupt(k)
    \/ DbToggle

SpecJson == Init /\ [][NextJson]_vars

\* ------------------------------------------- init() called concurrently
\* init() of the retrying PostgresStore with its awaits told apart: the
\* schema query is issued and this._initPromise holds its promise ("pending"),
\* the query settles ("resolved" or "rejected"), and each caller that awaits
\* the promise resumes in a microtask of its own. The reactions of a settled
\* promise are queued together and run before any other callback, so no
\* call of init() comes between a settlement and the callers it resumes.
notInitVars == <<fs, denied, writer, dbUp, budget, rows, dest, destDir, h,
                 saved, last, saveVars, jsonVars, adapterVars, appVars>>

Resuming == \E c \in Callers : callers[c] \in {"resumeOk", "resumeErr"}

\* (variant: every call issues a schema query)
IssuesQueryMut(promise) == TRUE
\* if (!this._initPromise) { this._initPromise = this.pool.query(...) }
IssuesQuery(promise) == promise = "null"

\* init() up to await this._initPromise
InitCall(c) ==
    /\ callers[c] = "idle"
    /\ ~Resuming
    /\ IF IssuesQuery(initPromise)
         THEN /\ initPromise' = "pending"
              /\ schemaQueries' = schemaQueries + 1
         ELSE UNCHANGED <<initPromise, schemaQueries>>
    /\ callers' = [callers EXCEPT ![c] =
                      IF initPromise' = "pending" THEN "awaiting"
                      ELSE IF initPromise' = "resolved" THEN "resumeOk"
                      ELSE "resumeErr"]
    /\ UNCHANGED notInitVars

\* The schema query settles: every caller awaiting the promise is resumed
\* with its outcome.
QuerySettle ==
    /\ initPromise = "pending"
    /\ schemaQueries > 0
    /\ schemaQueries' = schemaQueries - 1
    /\ initPromise' = IF dbUp THEN "resolved" ELSE "rejected"
    /\ callers' = [c \in Callers |->
                      IF callers[c] = "awaiting"
                        THEN (IF dbUp THEN "resumeOk" ELSE "resumeErr")
                        ELSE callers[c]]
    /\ UNCHANGED notInitVars

\* After the await: return, or catch (error) { this._initPromise = null; throw error; }
InitResume(c) ==
    /\ callers[c] \in {"resumeOk", "resumeErr"}
    /\ IF callers[c] = "resumeOk"
         THEN /\ callers' = [callers EXCEPT ![c] = "ok"]
              /\ UNCHANGED initPromise
         ELSE /\ callers' = [callers EXCEPT ![c] = "err"]
              /\ initPromise' = "null"
    /\ UNCHANGED schemaQueries
    /\ UNCHANGED notInitVars

\* The caller has taken the outcome of init() and may call it again.
InitReturn(c) ==
    /\ callers[c] \in {"ok", "err"}
    /\ callers' = [callers EXCEPT ![c] = "idle"]
    /\ UNCHANGED <<initPromise, schemaQueries>>
    /\ UNCHANGED notInitVars

NextInit ==
    \/ \E c \in Callers : InitCall(c)
    \/ QuerySettle
    \/ \E c \in Callers : InitResume(c)
    \/ \E c \in Callers : InitReturn(c)
    \/ DbToggle

SpecInit == Init /\ [][NextInit]_vars

\* ------------------------------------------ extract() during a save()
\* extract({session, path}) called while a save() is between its awaits. Its
\* SELECT is one statement, as the upsert of save is: each is one step.
ExtractRacing(k) ==
    /\ pc # "idle"
    /\ initPromise' = InitPromiseAfter
    /\ IF InitFails \/ ~dbUp
         THEN /\ UNCHANGED <<dest, destDir>>
              /\ last' = [op |-> "extract", key |-> k, out |-> "error",
                          was |-> saved[k].state, db |-> dbUp,
                          wrote |-> FALSE, changed |-> FALSE]
         ELSE IF \A r \in SelectRows(rows, k) : Falsy(r.data)
           THEN /\ UNCHANGED <<dest, destDir>>
                /\ last' = [op |-> "extract", key |-> k, out |-> "absent",
                            was |-> saved[k].state, db |-> dbUp,
                            wrote |-> FALSE, changed |-> FALSE]
           ELSE \E r \in SelectRows(rows, k) :
                /\ ~Falsy(r.data)
                /\ destDir' = MkdirRecursive(destDir)
                /\ dest' = WriteFile(destDir', dest, r.data)
                /\ last' = [op |-> "extract", key |-> k,
                            out |-> IF destDir' THEN "written" ELSE "error",
                            was |-> saved[k].state, db |-> dbUp,
                            wrote |-> destDir', changed |-> FALSE]
    /\ UNCHANGED <<rows, saved, h>>
    /\ UNCHANGED saveVars
    /\ UNCHANGED envVars
    /\ UNCHANGED otherVars

NextRace ==
    \/ SaveStep
    \/ \E k \in Sessions : ExtractRacing(k)
    \/ \E t \in Payloads : EnvPut(CandidatePaths(OwnSession)[1], t)
    \/ EnvRemove(CandidatePaths(OwnSession)[1])
    \/ DbToggle

SpecRace == Init /\ [][NextRace]_vars

\* ------------------------------------- the database-backed store adapter
\* WhatsAppAPIDatabaseStore on top of DatabaseManager (table
\* whatsapp_sessions). The library calls a store with option objects:
\* {session: s}; a call with the bare string s is modelled beside it.
notAdapterVars == <<fs, denied, writer, rows, initPromise, dest, destDir, h,
                    saved, last, saveVars, initVars, jsonVars, appVars>>

OptionsOf(s) == [shape |-> "object", session |-> s]
StringOf(s) == [shape |-> "string", session |-> s]
Args == {OptionsOf(s) : s \in Sessions} \cup {StringOf(s) : s \in Sessions}

\* JSON.stringify of a string and of the object {session: s}, token by token.
JsonOfString(s) == <<"\"", s, "\"">>
JsonOfOptions(s) == <<"{", "\"", "session", "\"", ":", "\"", s, "\"", "}">>
\* JSON.parse(session.session_data) of a text written by saveSession.
ParseString(t) == t[2]

\* The value node-postgres sends for the query parameter sessionId: a string
\* as it is, an object as its JSON text.
QueryParam(arg) ==
    IF arg.shape = "string" THEN <<arg.session>> ELSE JsonOfOptions(arg.session)

\* getSession(sessionId): null when not connected or no row, else the row
\* with session_data parsed; a failing query is rethrown.
GetSession(arg) ==
    IF ~isConnected THEN [out |-> "null", value |-> ""]
    ELSE IF ~dbUp THEN [out |-> "error", value |-> ""]
    ELSE IF SelectRows(wrows, QueryParam(arg)) = {}
      THEN [out |-> "null", value |-> ""]
    ELSE LET r == CHOOSE r \in SelectRows(wrows, QueryParam(arg)) : TRUE
         IN [out |-> "record", value |-> ParseString(r.data)]

\* save(data): await this.db.saveSession(data.session, data.session)
ASave(s) ==
    /\ IF isConnected /\ dbUp
         THEN /\ wrows' = Upsert(wrows, <<s>>, JsonOfString(s))
              /\ asaved' = asaved \cup {s}
         ELSE UNCHANGED <<wrows, asaved>>
    /\ alast' = [NoALast EXCEPT
                   !.op = "save", !.session = s, !.shape = "object",
                   !.out = IF isConnected /\ ~dbUp THEN "error" ELSE "ok",
                   !.connected = (isConnected /\ dbUp),
                   !.wasSaved = (s \in asaved)]
    /\ UNCHANGED <<isConnected, dbUp, budget, notAdapterVars>>

\* sessionExists(session): (await this.db.getSession(session)) !== null
ASessionExists(arg) ==
    /\ alast' = [NoALast EXCEPT
                   !.op = "sessionExists", !.session = arg.session,
                   !.shape = arg.shape,
                   !.out = IF GetSession(arg).out = "error" THEN "error"
                           ELSE IF GetSession(arg).out # "null" THEN "true"
                           ELSE "false",
                   !.connected = (isConnected /\ dbUp),
                   !.wasSaved = (arg.session \in asaved)]
    /\ UNCHANGED <<wrows, asaved, isConnected, dbUp, budget, notAdapterVars>>

\* extract(session): return await this.db.getSession(session)
AExtract(arg) ==
    /\ alast' = [NoALast EXCEPT
                   !.op = "extract", !.session = arg.session,
                   !.shape = arg.shape,
                   !.out = GetSession(arg).out,
                   !.value = GetSession(arg).value,
                   !.connected = (isConnected /\ dbUp),
                   !.wasSaved = (arg.session \in asaved)]
    /\ UNCHANGED <<wrows, asaved, isConnected, dbUp, budget, notAdapterVars>>

\* delete(session): await this.db.deleteSession(session)
ADelete(arg) ==
    /\ IF isConnected /\ dbUp
         THEN /\ wrows' = DeleteRows(wrows, QueryParam(arg))
              /\ asaved' = asaved \ {arg.session}
         ELSE UNCHANGED <<wrows, asaved>>
    /\ alast' = [NoALast EXCEPT
                   !.op = "delete", !.session = arg.session,
                   !.shape = arg.shape,
                   !.out = IF isConnected /\ ~dbUp THEN "error" ELSE "ok",
                   !.connected = (isConnected /\ dbUp),
                   !.wasSaved = (arg.session \in asaved)]
    /\ UNCHANGED <<isConnected, dbUp, budget, notAdapterVars>>

\* connect(): isConnected is true after a successful test query, false after
\* a failed one.
Connect ==
    /\ ~isConnected
    /\ isConnected' = dbUp
    /\ UNCHANGED <<wrows, alast, asaved, dbUp, budget, notAdapterVars>>

\* close()
Close ==
    /\ isConnected
    /\ isConnected' = FALSE
    /\ UNCHANGED <<wrows, alast, asaved, dbUp, budget, notAdapterVars>>

NextAdapter ==
    \/ \E s \in Sessions : ASave(s)
    \/ \E arg \in Args : ASessionExists(arg)
    \/ \E arg \in Args : AExtract(arg)
    \/ \E arg \in Args : ADelete(arg)
    \/ Connect
    \/ Close
    \/ DbToggle

SpecAdapter == Init /\ [][NextAdapter]_vars

\* ---------------------------------------------------------------- claims
Finished == pc \in {"returned", "thrown"}
Stored(k) == SelectRows(rows, k)
PrimaryPath == <<OwnSession, "cwd">>
AuthPath == <<OwnSession, "auth">>

\* C1: when the archive is absent at the call of save, the database works,
\* and the one thing that happens meanwhile is that the fully written archive
\* is put in place before the first waitForExistingPath has timed out, save
\* returns (it does not throw) and the record of the session holds exactly
\* the archive's bytes.
C1_SaveSucceedsWhenArchiveAppears ==
    (Finished /\ h.absentAtCall /\ h.dbAtCall /\ h.scen = "appeared")
        => /\ pc = "returned"
           /\ h.put \in Payloads
           /\ Stored(session) = {[key |-> session, data |-> h.put]}

C1_Witness ==
    /\ pc = "returned"
    /\ h.absentAtCall /\ h.dbAtCall /\ h.scen = "appeared"
    /\ attempt = 2
    /\ Stored(session) = {[key |-> session, data |-> h.put]}

\* C2: when no candidate path exists at any time of the call (and the schema
\* query did not fail), save never returns: it throws after exactly 3
\* attempts, and at no time of the call does the table differ from what it
\* was at the call.
C2_SaveFailsAfterThreeAttempts ==
    ((InFlight \/ Finished) /\ ~h.existed /\ ~h.initFailed)
        => /\ pc # "returned"
           /\ rows = h.rowsAtCall
           /\ pc = "thrown" => attempt = 3

C2_Witness ==
    /\ pc = "thrown"
    /\ ~h.existed /\ ~h.initFailed
    /\ attempt = 3
    /\ Stored(session) = {[key |-> session, data |-> PayloadA]}

\* C3: save's loop makes at most 3 attempts; after the failed attempt n < 3
\* it waits 500 * 2^(n-1) ms (500, then 1000) and after the third none; it
\* returns on the first attempt that succeeds, with no further attempt; and
\* the loop throws only after the third attempt has failed, with that
\* attempt's error.
C3_RetryLoop ==
    /\ attempt \in 0..3
    /\ Len(backoffs) <= 2
    /\ Len(backoffs) >= 1 => backoffs[1] = 500
    /\ Len(backoffs) >= 2 => backoffs[2] = 1000
    /\ pc \in {"waitPath", "waitStable", "read", "upsert", "returned"}
          => Len(backoffs) = attempt - 1
    /\ pc = "loop" => Len(backoffs) = (IF attempt = 3 THEN 2 ELSE attempt)
    /\ pc = "returned" => ~ENABLED AttemptStart
    /\ (pc = "thrown" /\ ~h.initFailed)
          => /\ attempt = 3
             /\ Len(backoffs) = 2
             /\ lastError # "none"

C3_Witness ==
    /\ pc = "returned"
    /\ attempt = 3
    /\ backoffs = <<500, 1000>>

ReportedStable == pc \in {"read", "upsert", "returned"}

\* C5: waitForStableFile returns true only when its two most recent polls
\* observed the same size and that size is greater than zero.
C5_StableOnlyAfterEqualPolls ==
    ReportedStable => (obs[1] = obs[2] /\ obs[2] > 0)

\* The exporter was writing the archive when save was called, save works on
\* the file it writes, and nothing happens during the call but the exporter
\* writing more bytes.
GrowingArchive ==
    /\ pc \in {"waitStable", "read", "upsert", "returned"}
    /\ h.writerAtCall.active
    /\ h.scen \in {"quiet", "growing"}
    /\ sessionFilePath = h.writerAtCall.path

\* C6 as claimed: with the exporter still growing the archive, stability is
\* not reported while two consecutive polls observe different sizes, and the
\* bytes upserted are the exporter's final, fully written content, never a
\* proper prefix of it.
C6_StoredIsFinalContent ==
    GrowingArchive
        => /\ ReportedStable => (obs[1] = obs[2] /\ obs[2] > 0)
           /\ pc = "returned"
                 => Stored(session) =
                       {[key |-> session, data |-> h.writerAtCall.target]}

\* C6 amended: with the exporter still growing the archive, stability is
\* reported only when two consecutive polls observed the same size greater
\* than zero, and the bytes upserted are the bytes the file held when it was
\* read: a prefix of the exporter's final content, and the final content
\* itself when the exporter had finished by then.
C6_StoredIsContentAtRead ==
    GrowingArchive
        => /\ ReportedStable => (obs[1] = obs[2] /\ obs[2] > 0)
           /\ pc = "returned"
                 => /\ Stored(session) = {[key |-> session, data |-> fileBuffer]}
                    /\ IsPrefix(fileBuffer, h.writerAtCall.target)
                    /\ h.doneAtRead => fileBuffer = h.writerAtCall.target

C6_Witness ==
    /\ GrowingArchive
    /\ pc = "returned"
    /\ h.scen = "growing"
    /\ h.doneAtRead
    /\ Stored(session) = {[key |-> session, data |-> h.writerAtCall.target]}

LastBlob(k) == saved[k].blobs[Len(saved[k].blobs)]

\* C7: the table holds at most one row per key; after a successful save the
\* one row of the key holds the bytes of the latest save (of b2 after saves
\* of b1 and b2), and extract writes exactly those bytes.
C7_UpsertReplaces ==
    /\ \A k \in Sessions : Cardinality(Stored(k)) <= 1
    /\ \A k \in Sessions :
          saved[k].state = "saved"
              => Stored(k) = {[key |-> k, data |-> LastBlob(k)]}
    /\ (last.op = "extract" /\ last.out = "written")
          => /\ saved[last.key].state = "saved"
             /\ dest = FileOf(LastBlob(last.key))

C7_Witness ==
    /\ Len(saved[OwnSession].blobs) = 2
    /\ saved[OwnSession].blobs[1] # saved[OwnSession].blobs[2]
    /\ last.op = "extract" /\ last.key = OwnSession
    /\ dest = FileOf(saved[OwnSession].blobs[2])

\* C8: with the database up, delete completes without error and leaves no
\* row of the key; on a key that was never saved or is already deleted it
\* changes nothing; and an extract after the delete finds no record: it
\* completes without error and writes no file.
C8_DeleteThenExtractAbsent ==
    /\ (last.op = "delete" /\ last.db)
          => /\ last.out = "ok"
             /\ Stored(last.key) = {}
             /\ last.was \in {"never", "deleted"} => ~last.changed
    /\ (last.op = "extract" /\ last.db /\ last.was \in {"never", "deleted"})
          => /\ last.out = "absent"
             /\ ~last.wrote

C8_Witness ==
    /\ last.op = "extract"
    /\ last.key = OtherSession
    /\ last.was = "deleted"
    /\ last.out = "absent"
    /\ dest = FileOf(PayloadB)

\* C9: with the database up, sessionExists answers false for a key that was
\* never saved or was deleted with no later save, and true for a key whose
\* latest successful operation is a save.
C9_ExistsIffSaved ==
    (last.op = "sessionExists" /\ last.db)
        => /\ last.out \in {"true", "false"}
           /\ last.out = "true" <=> last.was = "saved"

C9_Witness ==
    /\ last.op = "sessionExists"
    /\ last.key = OwnSession
    /\ last.out = "true"
    /\ saved[OwnSession].state = "saved"

\* C10: on every tick waitForExistingPath checks the working-directory path
\* first and the auth-data path second; it returns a candidate that exists,
\* the working-directory path whenever that exists when checked, the
\* auth-data path only after the working-directory path was found absent in
\* the same tick; while no candidate exists it keeps polling, and it gives up
\* (null: 'Session archive not found') only once the timeout has elapsed.
C10_FirstExistingCandidate ==
    [][(pc = "waitPath" /\ budget' = budget)
          => /\ pc' = "waitStable"
                   => /\ sessionFilePath' \in {PrimaryPath, AuthPath}
                      /\ fs[sessionFilePath'].exists
                      /\ sessionFilePath' = AuthPath => idx = 2
             /\ (/\ idx = 1 /\ elapsed <= PathTimeoutTicks
                 /\ fs[PrimaryPath].exists /\ PrimaryPath \notin denied)
                   => (pc' = "waitStable" /\ sessionFilePath' = PrimaryPath)
             /\ (idx = 2 /\ fs[AuthPath].exists /\ AuthPath \notin denied)
                   => (pc' = "waitStable" /\ sessionFilePath' = AuthPath)
             /\ (/\ elapsed <= PathTimeoutTicks
                 /\ ~fs[PrimaryPath].exists /\ ~fs[AuthPath].exists
                 /\ denied = {})
                   => (pc' = "waitPath" /\ lastError' = lastError)
             /\ (pc' = "loop" /\ lastError' = "NotFound")
                   => elapsed > PathTimeoutTicks
      ]_vars

C10_Witness ==
    /\ pc = "waitStable"
    /\ obs = NoObs
    /\ sessionFilePath = PrimaryPath
    /\ fs[PrimaryPath].exists
    /\ fs[AuthPath].exists

\* The candidate that waitForExistingPath checks next.
Candidate == CandidatePaths(session)[idx]

\* C11: waitForExistingPath never throws because a candidate is absent: an
\* absent candidate makes it go on (the next candidate, or the next tick), and
\* the error that leaves it is never ENOENT. Any other error of access() on a
\* candidate (EACCES) is thrown to save on the step where it occurs: no later
\* candidate is checked, no further tick is waited, no path is returned.
C11_AbsenceIsNotAnError ==
    [][(pc = "waitPath" /\ budget' = budget)
          => /\ (pc' = "loop") => lastError' \in {"EACCES", "NotFound"}
             /\ (elapsed <= PathTimeoutTicks /\ AccessCode(Candidate) = "ENOENT")
                   => /\ pc' = "waitPath"
                      /\ lastError' = lastError
                      /\ \/ idx' = idx + 1 /\ elapsed' = elapsed
                         \/ idx' = 1 /\ elapsed' = elapsed + 1
             /\ (elapsed <= PathTimeoutTicks /\ AccessCode(Candidate) = "EACCES")
                   => /\ pc' = "loop"
                      /\ lastError' = "EACCES"
                      /\ idx' = idx /\ elapsed' = elapsed
                      /\ sessionFilePath' = sessionFilePath
             /\ (pc' = "loop" /\ lastError' = "EACCES")
                   => (elapsed <= PathTimeoutTicks /\ Candidate \in denied)
      ]_vars

\* waitForExistingPath threw EACCES on the working-directory path in the first
\* tick, although the auth-data path holds an archive: it was not checked.
C11_Witness ==
    /\ pc = "loop"
    /\ lastError = "EACCES"
    /\ sessionFilePath = NoPath
    /\ idx = 1 /\ elapsed = 0
    /\ fs[AuthPath].exists /\ AuthPath \notin denied

\* C12: waitForStableFile never reports a zero-length file as stable: the poll
\* on which it returns true observed a size greater than zero, and lastSize
\* is never 0, so a file that every poll observes with size 0 is never
\* reported stable, however many polls in a row observe 0.
C12_ZeroLengthNeverStable ==
    /\ ReportedStable => obs[2] > 0
    /\ lastSize # 0

\* The archive stayed empty during the whole call: three polls observed size
\* 0, none reported stability, and the wait ended with the timeout error.
C12_Witness ==
    /\ pc = "loop"
    /\ lastError = "Timeout"
    /\ h.scen = "quiet"
    /\ fs[sessionFilePath] = FileOf(<<>>)
    /\ obs = <<0, 0>>
    /\ elapsed = StableTimeoutTicks + 1

\* save() with the scheduling of the event loop: a wait that can take a step
\* takes it (sleep(interval) ends, the promise of stat() settles).
SpecFair == Spec /\ WF_vars(StablePoll) /\ WF_vars(StableTimeout)

\* waitForStableFile never polls forever: a wait that has started ends, with
\* stability reported or with an error.
WaitTerminates == (pc = "waitStable") ~> (pc # "waitStable")

\* C13: waitForStableFile always terminates: it polls only while the elapsed
\* time is within the timeout, and a wait is never stuck; it fails with the
\* timeout error only once the elapsed time exceeds the timeout; and when the
\* size never stabilizes (no two polls in a row observe the same size greater
\* than zero: it keeps changing, stays zero, or the file is missing) it never
\* returns success.
C13_TimesOutUnlessStabilized ==
    /\ pc = "waitStable"
          => /\ elapsed <= StableTimeoutTicks + 1
             /\ ENABLED (StablePoll \/ StableTimeout)
    /\ (pc = "loop" /\ lastError = "Timeout") => elapsed > StableTimeoutTicks
    /\ ReportedStable => (obs[2] > 0 /\ obs[1] = obs[2])

\* C14: an archive that waitForExistingPath found and that external cleanup
\* removed before it was read makes the attempt fail, never the call: while
\* waitForStableFile polls, the missing file is polled on until the timeout
\* error; at readFile it is the error ENOENT; either error is caught, the
\* table is untouched, after attempt n < 3 the backoff is waited and the
\* next attempt starts (save throws only after the third), and a later
\* attempt that reads the archive and upserts it makes save return with the
\* bytes read stored.
C14_VanishedArchiveIsRetried ==
    [][(budget' = budget)
          => /\ (pc = "read" /\ AccessCode(sessionFilePath) = "ENOENT")
                   => /\ pc' = "loop"
                      /\ lastError' = "ENOENT"
                      /\ rows' = rows
                      /\ backoffs' = IF attempt < 3
                                       THEN Append(backoffs, 500 * 2^(attempt - 1))
                                       ELSE backoffs
             /\ (pc = "waitStable" /\ AccessCode(sessionFilePath) = "ENOENT")
                   => \/ /\ pc' = "waitStable"
                         /\ elapsed' = elapsed + 1
                         /\ lastError' = lastError
                      \/ /\ elapsed > StableTimeoutTicks
                         /\ pc' = "loop"
                         /\ lastError' = "Timeout"
                         /\ rows' = rows
             /\ (pc = "loop" /\ lastError \in {"ENOENT", "Timeout"})
                   => IF attempt < 3
                        THEN pc' = "waitPath" /\ attempt' = attempt + 1
                        ELSE pc' = "thrown"
             /\ (pc' = "thrown" /\ lastError' \in {"ENOENT", "Timeout"})
                   => attempt = 3
             /\ (pc = "upsert" /\ dbUp /\ lastError \in {"ENOENT", "Timeout"})
                   => /\ pc' = "returned"
                      /\ SelectRows(rows', session)
                            = {[key |-> session, data |-> fileBuffer]}
      ]_vars

\* The first attempt found the archive, which was removed before readFile;
\* the second attempt found it again and save returned with it stored.
C14_Witness ==
    /\ pc = "returned"
    /\ attempt = 2
    /\ lastError = "ENOENT"
    /\ backoffs = <<500>>
    /\ Stored(session) = {[key |-> session, data |-> fileBuffer]}
    /\ fileBuffer \in Payloads

\* A step that is one whole call of extract with the database up.
ExtractStep ==
    /\ pc = "idle" /\ pc' = "idle"
    /\ budget' = budget
    /\ dbUp
    /\ last'.op = "extract"

\* C15 as claimed: extract of a session with no record, or with a record
\* whose data is empty (NULL or zero bytes), returns without error and
\* creates or modifies no file; extract of a session with a stored blob
\* creates the directory of the target path and writes exactly the stored
\* bytes there; the table is left as it was.
C15_EmptyDataWritesNothing ==
    [][ExtractStep
          => /\ rows' = rows
             /\ (\A r \in Stored(last'.key) : r.data = Null \/ r.data = <<>>)
                   => /\ last'.out = "absent"
                      /\ dest' = dest /\ destDir' = destDir
             /\ \A r \in Stored(last'.key) :
                   (r.data # Null /\ r.data # <<>>)
                      => /\ last'.out = "written"
                         /\ destDir'
                         /\ dest' = FileOf(r.data)
      ]_vars

\* C15 amended: extract of a session with no record, or with a record whose
\* data is NULL, returns without error and creates or modifies no file;
\* extract of a session with a stored blob, a zero-length blob included,
\* creates the directory of the target path and writes exactly the stored
\* bytes there (an empty file for a zero-length blob); the table is left as
\* it was.
C15_OnlyNullDataWritesNothing ==
    [][ExtractStep
          => /\ rows' = rows
             /\ (\A r \in Stored(last'.key) : r.data = Null)
                   => /\ last'.out = "absent"
                      /\ dest' = dest /\ destDir' = destDir
             /\ \A r \in Stored(last'.key) :
                   r.data # Null
                      => /\ last'.out = "written"
                         /\ destDir'
                         /\ dest' = FileOf(r.data)
      ]_vars

\* save stored a zero-length blob (the exporter reopened the archive between
\* the stability check and the read), and extract wrote it as an empty file.
C15_Witness ==
    /\ last.op = "extract" /\ last.key = OwnSession
    /\ last.out = "written"
    /\ Stored(OwnSession) = {[key |-> OwnSession, data |-> <<>>]}
    /\ destDir
    /\ dest = FileOf(<<>>)

\* C16: a failed load looks to the caller like the load of a session that was
\* never saved: an extract whose schema query or SELECT fails (the database
\* is down) ends as the extract of a never-saved session does, with the
\* normal return of 'no session' and no file written, not with an exception.
C16_FailedLoadLooksLikeNoSession ==
    (last.op = "extract" /\ ~last.db)
        => /\ last.out = "absent"
           /\ ~last.wrote

\* C17: in the JSON-text store, with the database answering, extract of a
\* key whose stored text JSON.parse rejects returns null (it does not throw)
\* and deletes the record of that key, and of no other key; as long as
\* nothing is saved under the key, the key has no record, sessionExists
\* answers false, and a repeated extract returns null without meeting a
\* parse failure.
C17_CorruptRecordIsDeleted ==
    /\ (jlast.op = "extract" /\ jlast.parseFailed /\ jlast.db)
          => /\ jlast.out = "null"
             /\ jlast.others
             /\ jlast.key \in jgone
    /\ \A k \in jgone : SelectRows(jrows, k) = {}
    /\ (jlast.op = "sessionExists" /\ jlast.wasGone /\ jlast.db)
          => jlast.out = "false"
    /\ (jlast.op = "extract" /\ jlast.wasGone /\ jlast.db)
          => (jlast.out = "null" /\ ~jlast.parseFailed)

\* The corrupt record was deleted by an extract; the repeated extract of the
\* key returned null with no parse failure, and the other key kept its record.
C17_Witness ==
    /\ jlast.op = "extract" /\ jlast.key = OwnSession
    /\ jlast.wasGone /\ jlast.db
    /\ jlast.out = "null" /\ ~jlast.parseFailed
    /\ SelectRows(jrows, OtherSession) # {}

\* C18: init() is safe to call concurrently. At most one schema query is in
\* flight, and one is in flight exactly while _initPromise is pending; a call
\* made while the query is in flight or has succeeded issues no query and
\* shares the promise; callers that await the same query get the same
\* outcome; a failing query is surfaced to every caller awaiting it (each
\* ends with the error, none with success); and after a failure the next
\* call finds _initPromise null and issues a fresh schema query.
C18_InitIsSharedAndRetried ==
    /\ [](/\ schemaQueries <= 1
          /\ (schemaQueries = 1) <=> (initPromise = "pending")
          /\ ~(\E a, b \in Callers : callers[a] = "resumeOk"
                                     /\ callers[b] = "resumeErr")
          /\ (\E c \in Callers : callers[c] = "awaiting")
                => initPromise = "pending"
          /\ ~Resuming => initPromise # "rejected")
    /\ [][/\ \A c \in Callers :
               (callers[c] = "idle" /\ callers'[c] # "idle")
                  => IF initPromise \in {"pending", "resolved"}
                       THEN /\ schemaQueries' = schemaQueries
                            /\ initPromise' = initPromise
                            /\ callers'[c] \in {"awaiting", "resumeOk"}
                       ELSE /\ initPromise = "null"
                            /\ schemaQueries' = schemaQueries + 1
                            /\ initPromise' = "pending"
                            /\ callers'[c] = "awaiting"
          /\ (initPromise = "pending" /\ initPromise' # "pending")
                => \A c \in Callers :
                      callers[c] = "awaiting"
                         => callers'[c] = (IF initPromise' = "rejected"
                                             THEN "resumeErr" ELSE "resumeOk")
          /\ \A c \in Callers :
                (callers[c] = "resumeErr" /\ callers'[c] # "resumeErr")
                   => (callers'[c] = "err" /\ initPromise' = "null")
          /\ \A c \in Callers :
                (callers[c] = "resumeOk" /\ callers'[c] # "resumeOk")
                   => callers'[c] = "ok"
         ]_vars

\* Two callers awaited one schema query, it failed and both got the error;
\* the call a third caller made after the failure has issued a fresh query.
C18_Witness ==
    /\ callers[1] = "err"
    /\ callers[2] = "err"
    /\ callers[3] = "awaiting"
    /\ initPromise = "pending"
    /\ schemaQueries = 1

\* The record of the key of the running save() when save() was called.
PreviousRecord == SelectRows(h.rowsAtCall, session)

\* C19: however an extract and a save of the same key interleave, what the
\* extract finds is the whole of what the key held before the save (that
\* record's bytes, or no record) or, once the upsert is done, the whole of
\* the bytes the save upserts: never part of a blob and never a mix of two.
C19_ExtractSeesWholeBlob ==
    (pc # "idle" /\ last.op = "extract" /\ last.key = session /\ last.db)
        => \/ /\ last.out = "absent"
              /\ PreviousRecord = {}
              /\ ~last.wrote
           \/ /\ last.out = "written"
              /\ \E r \in PreviousRecord : dest = FileOf(r.data)
           \/ /\ last.out = "written"
              /\ pc = "returned"
              /\ dest = FileOf(fileBuffer)

\* A second save of the key has returned; the extract called during it found
\* the whole previous blob, which differs from the blob now stored.
C19_Witness ==
    /\ pc = "returned"
    /\ last.op = "extract" /\ last.key = session /\ last.out = "written"
    /\ PreviousRecord # {}
    /\ \E r \in PreviousRecord : dest = FileOf(r.data)
    /\ dest # FileOf(fileBuffer)
    /\ Stored(session) = {[key |-> session, data |-> fileBuffer]}

\* C20: called with option objects and with the database connected, the
\* adapter looks up the key that save wrote: for a session saved through it
\* and not deleted since, sessionExists({session: s}) answers true and
\* extract({session: s}) returns the record saved under s; for a session
\* never saved, or deleted since, sessionExists answers false.
C20_AdapterKeysAgree ==
    (alast.shape = "object" /\ alast.connected)
        => /\ alast.op = "sessionExists"
                 => (alast.out = "true" <=> alast.wasSaved)
           /\ (alast.op = "extract" /\ alast.wasSaved)
                 => (alast.out = "record" /\ alast.value = alast.session)

\* ------------------------------------------------------ the simple store
\* The PostgresStore without retries (src/PostgresStore.js): save() reads
\* <session>.zip of the working directory with readFileSync, awaits the
\* upsert, and removes the archive in a finally block. The exporter and
\* external cleanup can act while the upsert is awaited.
persistVars == <<initVars, jsonVars, adapterVars>>
notSimpleVars == <<denied, writer, dbUp, budget, initPromise, dest, destDir,
                   h, saved, last, saveVars, persistVars, healthVars, serverVars,
                   indexVars, managerVars, lockVars,
                   configVars>>

\* const sessionFilePath = `${session}.zip`
SessionFilePath(s) == <<s, "cwd">>

\* if (fs.existsSync(sessionFilePath)) { fs.unlinkSync(sessionFilePath); }
Unlink(files, p) == IF files[p].exists THEN [files EXCEPT ![p] = NoFile] ELSE files

\* const fileBuffer = fs.readFileSync(sessionFilePath): ENOENT is thrown
\* through the finally block, which finds no file to remove.
SimpleSaveCall(s) ==
    /\ spc = "idle"
    /\ IF fs[SessionFilePath(s)].exists
         THEN /\ spc' = "query"
              /\ sbuf' = fs[SessionFilePath(s)].data
              /\ slast' = slast
         ELSE /\ spc' = "idle"
              /\ sbuf' = <<>>
              /\ slast' = [out |-> "thrown", existedBefore |-> FALSE,
                           existsAfter |-> FALSE, persisted |-> FALSE]
    /\ UNCHANGED <<fs, rows>>
    /\ UNCHANGED notSimpleVars

\* await this.pool.query(INSERT ... ON CONFLICT ...) settles, then the
\* finally block runs, whether the query succeeded or failed.
SimpleSaveQuery ==
    /\ spc = "query"
    /\ LET p == SessionFilePath(OwnSession) IN
       /\ rows' = IF dbUp THEN Upsert(rows, OwnSession, sbuf) ELSE rows
       /\ fs' = Unlink(fs, p)
       /\ slast' = [out |-> IF dbUp THEN "ok" ELSE "thrown",
                    existedBefore |-> fs[p].exists,
                    existsAfter |-> fs'[p].exists,
                    persisted |-> dbUp]
    /\ spc' = "idle"
    /\ sbuf' = <<>>
    /\ UNCHANGED notSimpleVars

NextSimple ==
    \/ SimpleSaveCall(OwnSession)
    \/ SimpleSaveQuery
    \/ \E t \in Payloads : EnvPut(SessionFilePath(OwnSession), t)
    \/ EnvRemove(SessionFilePath(OwnSession))
    \/ DbToggle

SpecSimple == Init /\ [][NextSimple]_vars

\* C21: the simple store removes the archive only after it has persisted it:
\* a save() whose upsert failed throws and leaves the archive, which was on
\* disk when the upsert settled, on disk.
C21_ArchiveKeptUntilPersisted ==
    (slast.out = "thrown" /\ slast.existedBefore) => slast.existsAfter

\* ------------------------------------------------------ the health check
\* checkConnection() of the retrying store, called between the other store
\* operations while the database goes down and up.
notHealthVars == <<fs, denied, writer, dbUp, budget, rows, initPromise, dest,
                   destDir, h, saved, last, saveVars, persistVars, simpleVars,
                   serverVars, indexVars, managerVars, lockVars,
                   configVars>>

\* (variant: no catch around the query)
CheckOutcomeMut(ok) == IF ok THEN "true" ELSE "thrown"
\* try { await this.pool.query('SELECT 1'); return true; } catch (error) { return false; }
CheckOutcome(ok) == IF ok THEN "true" ELSE "false"

CheckConnection ==
    /\ clast' = [out |-> CheckOutcome(dbUp), db |-> dbUp]
    /\ UNCHANGED notHealthVars

NextHealth ==
    \/ CheckConnection
    \/ \E k \in Sessions : Extract(k)
    \/ \E k \in Sessions : Delete(k)
    \/ \E k \in Sessions : SessionExists(k)
    \/ DbToggle

SpecHealth == Init /\ [][NextHealth]_vars

\* C22: checkConnection never throws, answers true exactly when its query
\* succeeded, and changes nothing of the store: not the table, not
\* _initPromise, not a file.
C22_HealthCheckNeverThrows ==
    /\ [](clast.out # "none" =>
            /\ clast.out # "thrown"
            /\ (clast.out = "true") = clast.db)
    /\ [][clast' # clast =>
            UNCHANGED <<rows, initPromise, dest, destDir, fs, dbUp>>]_vars

\* C22 witness: a health check that failed after one that succeeded, on a
\* table that holds a saved row.
C22_Witness ==
    /\ clast.out = "false"
    /\ ~clast.db
    /\ rows # {}
    /\ last.op # "none"

\* ------------------------------------------- server.js: webhook and state
\* server.js keeps the webhook configuration in two variables and in the
\* JSON state file, which the client's event handlers also write. A restart
\* runs the module's top-level code again: every variable starts from its
\* initial value, the state file is what the last run left, and the
\* environment variable WEBHOOK_URL is what the deployment sets.
notServerVars == <<coreVars, persistVars, simpleVars, healthVars, indexVars,
                   managerVars, lockVars,
                   configVars>>

\* getMemoryState() as written by writeStateFile(): the payload has no
\* webhook key, and fs.writeFileSync replaces the file.
WriteStateFile(ready, qr) ==
    [exists |-> TRUE, hasWebhook |-> FALSE, webhookUrl |-> NoUrl,
     webhookEnabled |-> FALSE, ready |-> ready, hasQR |-> qr # NoQr]

\* saveWebhookConfig(): const currentState = readStateFile() || {}; the two
\* webhook keys are set on it and the object is written back.
SaveWebhookConfig(file, url, enabled) ==
    [exists |-> TRUE, hasWebhook |-> TRUE, webhookUrl |-> url,
     webhookEnabled |-> enabled, ready |-> file.ready, hasQR |-> file.hasQR]

\* loadWebhookConfig(): if (state && state.webhookUrl)
Loads(file) == file.exists /\ file.hasWebhook /\ file.webhookUrl # NoUrl

\* The bodies POST /api/webhook is called with: no url, a string that is
\* not a URL, or a URL.
Bodies == {"missing", "invalid"} \cup Urls
\* if (!url) return 400; try { new URL(url) } catch { return 400 }
ValidUrl(url) == url \in Urls

Did(step, code, fired) ==
    [wh EXCEPT !.step = step, !.urlPrev = webhookUrl,
               !.enabledPrev = webhookEnabled, !.code = code, !.fired = fired,
               !.reported = FALSE]

\* app.post('/api/webhook')
PostWebhook(url) ==
    /\ envUrl # NotStarted
    /\ IF ValidUrl(url)
         THEN /\ webhookUrl' = url
              /\ webhookEnabled' = TRUE
              /\ stateFile' = SaveWebhookConfig(stateFile, url, TRUE)
              /\ wh' = [Did("POST", 200, FALSE) EXCEPT
                           !.apiConfigured = TRUE, !.disabledByDelete = FALSE]
         ELSE /\ UNCHANGED <<webhookUrl, webhookEnabled, stateFile>>
              /\ wh' = Did("POST", 400, FALSE)
    /\ UNCHANGED <<isReady, qrString, handling, envUrl>>
    /\ UNCHANGED notServerVars

\* app.delete('/api/webhook')
DeleteWebhook ==
    /\ envUrl # NotStarted
    /\ webhookEnabled' = FALSE
    /\ stateFile' = SaveWebhookConfig(stateFile, webhookUrl, FALSE)
    /\ wh' = [Did("DELETE", 200, FALSE) EXCEPT
                 !.apiConfigured = TRUE, !.disabledByDelete = TRUE]
    /\ UNCHANGED <<webhookUrl, isReady, qrString, handling, envUrl>>
    /\ UNCHANGED notServerVars

\* The client's events that write the state file: qr, ready, authenticated,
\* disconnected, and the 5-second poll of client.getState().
Events == {"qr", "ready", "authenticated", "disconnected", "poll"}
ClientEvent(e) ==
    /\ envUrl # NotStarted
    /\ isReady' = CASE e = "ready" -> TRUE
                    [] e = "disconnected" -> FALSE
                    [] OTHER -> isReady
    /\ qrString' = CASE e = "qr" -> "qr"
                     [] e = "ready" -> NoQr
                     [] OTHER -> qrString
    /\ stateFile' = WriteStateFile(isReady', qrString')
    /\ wh' = Did("event", 0, FALSE)
    /\ UNCHANGED <<webhookUrl, webhookEnabled, handling, envUrl>>
    /\ UNCHANGED notServerVars

\* How many message handlers can be between their check and their POST.
MaxHandling == 1

\* if (webhookEnabled && webhookUrl)
Triggers(enabled, url) == enabled /\ url # NoUrl

\* client.on('message'): when the check passes the handler goes on to await
\* message.getContact() and message.getChat().
MessageEvent ==
    /\ envUrl # NotStarted
    /\ LET fires == Triggers(webhookEnabled, webhookUrl) IN
       /\ fires => handling < MaxHandling
       /\ handling' = IF fires THEN handling + 1 ELSE handling
       /\ wh' = Did("message", 0, fires)
    /\ UNCHANGED <<webhookUrl, webhookEnabled, isReady, qrString, stateFile,
                   envUrl>>
    /\ UNCHANGED notServerVars

\* await axios.post(webhookUrl, webhookPayload, ...): the URL is read when
\* the two awaits before it have settled.
MessagePost ==
    /\ handling > 0
    /\ handling' = handling - 1
    /\ wh' = Did("post", 0, FALSE)
    /\ UNCHANGED <<webhookUrl, webhookEnabled, isReady, qrString, stateFile,
                   envUrl>>
    /\ UNCHANGED notServerVars

\* The process is started, or started again, with WEBHOOK_URL = env (NoUrl:
\* not set; the deployment keeps its environment from one run to the
\* next): loadWebhookConfig(), else the environment variable, which is
\* saved when it is set.
Restart(env) ==
    /\ envUrl \in {NotStarted, env}
    /\ envUrl' = env
    /\ IF Loads(stateFile)
         THEN /\ webhookUrl' = stateFile.webhookUrl
              /\ webhookEnabled' = stateFile.webhookEnabled
              /\ stateFile' = stateFile
         ELSE /\ webhookUrl' = env
              /\ webhookEnabled' = (env # NoUrl)
              /\ stateFile' = IF env # NoUrl
                                THEN SaveWebhookConfig(stateFile, env, TRUE)
                                ELSE stateFile
    /\ isReady' = FALSE
    /\ qrString' = NoQr
    /\ handling' = 0
    /\ wh' = Did(IF envUrl = NotStarted THEN "start" ELSE "restart", 0, FALSE)
    /\ UNCHANGED notServerVars

\* getEffectiveState(): the state in memory when it is ready or has a QR
\* code, and otherwise the state file's, when there is one.
EffectiveReady(ready, qr, file) ==
    IF ready \/ qr # NoQr
      THEN ready
      ELSE IF file.exists THEN file.ready ELSE ready

\* app.get('/api/status'): ready: getEffectiveState().ready
ServerStatus ==
    /\ envUrl # NotStarted
    /\ wh' = [Did("status", 200, FALSE) EXCEPT
                 !.reported = EffectiveReady(isReady, qrString, stateFile)]
    /\ UNCHANGED <<webhookUrl, webhookEnabled, isReady, qrString, stateFile,
                   handling, envUrl>>
    /\ UNCHANGED notServerVars

\* app.post('/api/send'): if (!isReady) 400 'WhatsApp not ready'; a number
\* that has not 10 to 15 digits is answered 500 from the catch, like a
\* sendMessage that fails.
ServerSend(valid, ok) ==
    /\ envUrl # NotStarted
    /\ wh' = Did("send", IF ~isReady THEN 400
                         ELSE IF valid /\ ok THEN 200 ELSE 500, FALSE)
    /\ UNCHANGED <<webhookUrl, webhookEnabled, isReady, qrString, stateFile,
                   handling, envUrl>>
    /\ UNCHANGED notServerVars

NextServer ==
    \/ ServerStatus
    \/ \E valid, ok \in BOOLEAN : ServerSend(valid, ok)
    \/ \E url \in Bodies : PostWebhook(url)
    \/ DeleteWebhook
    \/ \E e \in Events : ClientEvent(e)
    \/ MessageEvent
    \/ MessagePost
    \/ \E env \in {NoUrl, EnvUrl} : Restart(env)

SpecServer == Init /\ [][NextServer]_vars

\* C23: once the webhook has been set or disabled through the API, a restart
\* restores the URL and the enabled flag that were in effect before it,
\* whatever events have written the state file in between.
C23_WebhookSurvivesRestart ==
    (wh.step = "restart" /\ wh.apiConfigured) =>
        /\ webhookUrl = wh.urlPrev
        /\ webhookEnabled = wh.enabledPrev

\* C28: a message triggers a webhook POST only when the webhook is enabled
\* and a URL is set, and never between a DELETE /api/webhook and the next
\* successful POST /api/webhook; DELETE disables and keeps the URL; a POST
\* /api/webhook without a valid URL is answered 400 and changes nothing.
C28_WebhookOnlyWhileEnabled ==
    /\ (wh.step = "message" /\ wh.fired) =>
          /\ wh.enabledPrev
          /\ wh.urlPrev # NoUrl
          /\ ~wh.disabledByDelete
    /\ wh.step = "DELETE" => (~webhookEnabled /\ webhookUrl = wh.urlPrev)
    /\ (wh.step = "POST" /\ wh.code = 400) =>
          (webhookUrl = wh.urlPrev /\ webhookEnabled = wh.enabledPrev)

\* C38: the readiness GET /api/status reports is the readiness POST
\* /api/send enforces, also right after a restart with the state file of
\* the previous run: when the status reports ready: true, a send is not
\* answered 400 'WhatsApp not ready'.
C38_ReportedReadyIsEnforced ==
    /\ (wh.step = "status" /\ wh.reported) => isReady
    /\ (wh.step = "send" /\ EffectiveReady(isReady, qrString, stateFile)) =>
          wh.code # 400

\* ------------------------------------------------- index.js: REST state
\* index.js keeps the connection state in module-level variables that the
\* client's event handlers set and the routes read. initialize() and
\* restartClient() are followed from await to await.
notIndexVars == <<coreVars, persistVars, simpleVars, healthVars, serverVars,
                  managerVars, lockVars,
                   configVars>>

IDid(step, code, called) ==
    [ih EXCEPT !.step = step, !.statusPrev = status, !.clientPrev = client,
               !.code = code, !.called = called]

initCallVars == <<initializePromise, inits, awaited>>

\* (variant: initialize() does not look at initializing)
AlreadyRunningMut(init) == FALSE
\* if (initializing) { return initializePromise; }
AlreadyRunning(init) == init

\* A call of initialize(): if (initializing) return initializePromise;
\* otherwise initializing = true; status = 'initializing'; the async body
\* runs up to await ensureStoreReady() and its promise is stored in
\* initializePromise.
CallInitialize ==
    IF AlreadyRunning(initializing)
      THEN UNCHANGED <<initializing, status, initializePromise, inits, ipc>>
      ELSE /\ inits < MaxInits
           /\ initializing' = TRUE
           /\ status' = "initializing"
           /\ inits' = inits + 1
           /\ initializePromise' = inits + 1
           /\ ipc' = "store"

\* finally { initializing = false; initializePromise = null; }
AfterFinally(p) == NoPromise

\* (variant: restarting is not reset)
AfterRestartMut(r) == r
\* restartClient(): finally { restarting = false; }
AfterRestart(r) == FALSE

\* The promise p has settled: the body of attempt p has run its finally.
Settled(p) == p = NoPromise \/ p # initializePromise

\* initialize() called when the server has started listening.
IndexStart ==
    /\ ipc = "not started"
    /\ CallInitialize
    /\ ih' = IDid("initialize", 0, FALSE)
    /\ UNCHANGED <<client, qrCode, awaited, restarting, rpc, sending>>
    /\ UNCHANGED notIndexVars

\* A call of initialize() made while an initialization is in progress.
InitializeAgain ==
    /\ initializing
    /\ CallInitialize
    /\ ih' = [IDid("initializeAgain", 0, FALSE) EXCEPT !.returned = initializePromise']
    /\ UNCHANGED <<client, qrCode, awaited, restarting, rpc, sending>>
    /\ UNCHANGED notIndexVars

\* await ensureStoreReady() settles: client = new Client(...), the handlers
\* are registered and client.initialize() is awaited; or the catch and
\* finally blocks run.
StoreReady(ok) ==
    /\ ipc = "store"
    /\ IF ok
         THEN /\ client' = "client"
              /\ ipc' = "clientInit"
              /\ ih' = IDid("storeReady", 0, FALSE)
              /\ UNCHANGED <<status, initializing, initializePromise>>
         ELSE /\ status' = "failed"
              /\ initializing' = FALSE
              /\ initializePromise' = AfterFinally(initializePromise)
              /\ ipc' = "idle"
              /\ client' = client
              /\ ih' = IDid("initFailed", 0, FALSE)
    /\ UNCHANGED <<qrCode, inits, awaited, restarting, rpc, sending>>
    /\ UNCHANGED notIndexVars

\* await client.initialize() settles.
ClientInitialized(ok) ==
    /\ ipc = "clientInit"
    /\ status' = IF ok THEN status ELSE "failed"
    /\ initializing' = FALSE
    /\ initializePromise' = AfterFinally(initializePromise)
    /\ ipc' = "idle"
    /\ ih' = IDid(IF ok THEN "clientInitialized" ELSE "initFailed", 0, FALSE)
    /\ UNCHANGED <<client, qrCode, inits, awaited, restarting, rpc, sending>>
    /\ UNCHANGED notIndexVars

\* if (status !== 'connected') { status = 'waiting_qr'; }
StatusOnQr(st) == IF st # "connected" THEN "waiting_qr" ELSE st

\* client.on('qr')
OnQr ==
    /\ client # NoClient
    /\ qrCode' = "qr"
    /\ status' = StatusOnQr(status)
    /\ ih' = IDid("qr", 0, FALSE)
    /\ UNCHANGED <<client, initializing, restarting, ipc, rpc, sending>>
    /\ UNCHANGED initCallVars
    /\ UNCHANGED notIndexVars

\* client.on('ready')
OnReady ==
    /\ client # NoClient
    /\ qrCode' = NoQr
    /\ status' = "connected"
    /\ ih' = [IDid("ready", 0, FALSE) EXCEPT !.disconnected = FALSE]
    /\ UNCHANGED <<client, initializing, restarting, ipc, rpc, sending>>
    /\ UNCHANGED initCallVars
    /\ UNCHANGED notIndexVars

\* client.on('auth_failure')
OnAuthFailure ==
    /\ client # NoClient
    /\ status' = "auth_failure"
    /\ ih' = IDid("auth_failure", 0, FALSE)
    /\ UNCHANGED <<client, qrCode, initializing, restarting, ipc, rpc, sending>>
    /\ UNCHANGED initCallVars
    /\ UNCHANGED notIndexVars

\* The client emits 'disconnected': index.js registers no handler for it.
OnDisconnected ==
    /\ client # NoClient
    /\ ih' = [IDid("disconnected", 0, FALSE) EXCEPT !.disconnected = TRUE]
    /\ UNCHANGED <<status, client, qrCode, initializing, restarting, ipc, rpc,
                   sending>>
    /\ UNCHANGED initCallVars
    /\ UNCHANGED notIndexVars

\* client.on('connection.update') with update = {qr}, {connection: 'open'},
\* {connection: 'close'} or {connection: 'close'} after a logout, which
\* calls restartClient('logged_out') without awaiting it.
Updates == {"qr", "open", "close", "loggedOut"}
\* (variant: the status is the update's connection field)
StatusOnUpdateMut(u, st) ==
    CASE u = "qr" -> StatusOnQr(st)
      [] u = "open" -> "open"
      [] OTHER -> "close"
\* if (qr) ...; if (connection === 'open') status = 'connected';
\* if (connection === 'close') status = 'disconnected';
StatusOnUpdate(u, st) ==
    CASE u = "qr" -> StatusOnQr(st)
      [] u = "open" -> "connected"
      [] OTHER -> "disconnected"
\* (variant: restartClient() does not wait for the initialization)
AwaitedMut(init, p) == NoPromise
\* waitForOngoingInitialization():
\* if (initializing && initializePromise) await initializePromise
Awaited(init, p) == IF init /\ p # NoPromise THEN p ELSE NoPromise

OnConnectionUpdate(u) ==
    /\ client # NoClient
    /\ u = "loggedOut" => inits < MaxInits
    /\ qrCode' = IF u = "qr" THEN "qr" ELSE NoQr
    /\ status' = StatusOnUpdate(u, status)
    /\ IF u = "loggedOut" /\ ~restarting
         THEN /\ restarting' = TRUE
              /\ rpc' = "wait"
              /\ awaited' = Awaited(initializing, initializePromise)
         ELSE UNCHANGED <<restarting, rpc, awaited>>
    /\ ih' = IDid(IF u = "loggedOut" THEN "trigger" ELSE "connection.update",
                  0, FALSE)
    /\ UNCHANGED <<client, initializing, initializePromise, inits, ipc, sending>>
    /\ UNCHANGED notIndexVars

\* restartClient(): await waitForOngoingInitialization() is over;
\* if (client) await client.destroy().
RestartDestroy ==
    /\ rpc = "wait"
    /\ Settled(awaited)
    /\ client # NoClient
    /\ rpc' = "destroy"
    /\ awaited' = NoPromise
    /\ ih' = IDid("destroy", 0, TRUE)
    /\ UNCHANGED <<status, client, qrCode, initializing, initializePromise, inits,
                   restarting, ipc, sending>>
    /\ UNCHANGED notIndexVars

\* restartClient(): client.destroy() settles (its error is caught), or
\* there was no client; client = null; qrCode = null; await initialize().
RestartInitialize ==
    /\ \/ rpc = "destroy"
       \/ rpc = "wait" /\ Settled(awaited) /\ client = NoClient
    /\ client' = NoClient
    /\ qrCode' = NoQr
    /\ CallInitialize
    /\ awaited' = initializePromise'
    /\ rpc' = "init"
    /\ ih' = IDid("restart", 0, FALSE)
    /\ UNCHANGED <<restarting, sending>>
    /\ UNCHANGED notIndexVars

\* restartClient(): await initialize() settles (an error is caught);
\* finally restarting = false.
RestartDone ==
    /\ rpc = "init"
    /\ Settled(awaited)
    /\ restarting' = AfterRestart(restarting)
    /\ rpc' = "idle"
    /\ awaited' = NoPromise
    /\ ih' = IDid("restarted", 0, FALSE)
    /\ UNCHANGED <<status, client, qrCode, initializing, initializePromise, inits,
                   ipc, sending>>
    /\ UNCHANGED notIndexVars

\* app.get('/api/status')
GetStatus ==
    /\ ih' = [IDid("status", 200, FALSE) EXCEPT !.reported = status]
    /\ UNCHANGED <<status, client, qrCode, initializing, restarting, ipc, rpc,
                   sending>>
    /\ UNCHANGED initCallVars
    /\ UNCHANGED notIndexVars

\* How many calls of client.sendMessage can be awaited at once.
MaxSending == 1

\* (variant: the status is not looked at)
CanSendMut(st, cl) == cl # NoClient
\* if (status === 'connected' && client)
CanSend(st, cl) == st = "connected" /\ cl # NoClient

\* app.post('/api/send'): client.sendMessage is called and awaited, or 400
\* is answered.
PostSend ==
    /\ CanSend(status, client) => sending < MaxSending
    /\ sending' = IF CanSend(status, client) THEN sending + 1 ELSE sending
    /\ ih' = IF CanSend(status, client)
               THEN IDid("send", 0, TRUE)
               ELSE IDid("send", 400, FALSE)
    /\ UNCHANGED <<status, client, qrCode, initializing, restarting, ipc, rpc>>
    /\ UNCHANGED initCallVars
    /\ UNCHANGED notIndexVars

\* await client.sendMessage(to, message) settles: 200, or 500 from the catch.
SendSettles(ok) ==
    /\ sending > 0
    /\ sending' = sending - 1
    /\ ih' = IDid("sent", IF ok THEN 200 ELSE 500, FALSE)
    /\ UNCHANGED <<status, client, qrCode, initializing, restarting, ipc, rpc>>
    /\ UNCHANGED initCallVars
    /\ UNCHANGED notIndexVars

NextIndex ==
    \/ IndexStart
    \/ InitializeAgain
    \/ \E ok \in BOOLEAN : StoreReady(ok)
    \/ \E ok \in BOOLEAN : ClientInitialized(ok)
    \/ OnQr
    \/ OnReady
    \/ OnAuthFailure
    \/ OnDisconnected
    \/ \E u \in Updates : OnConnectionUpdate(u)
    \/ RestartDestroy
    \/ RestartInitialize
    \/ RestartDone
    \/ GetStatus
    \/ PostSend
    \/ \E ok \in BOOLEAN : SendSettles(ok)

SpecIndex == Init /\ [][NextIndex]_vars

\* C25: once the client has emitted 'disconnected', and until it emits
\* 'ready' again, GET /api/status does not report 'connected' and POST
\* /api/send is answered 400 without a call of client.sendMessage.
C25_DisconnectedIsReflected ==
    ih.disconnected =>
        /\ ih.step = "status" => ih.reported # "connected"
        /\ ih.step = "send" => (~ih.called /\ ih.code = 400)

\* The values of status the API documentation lists.
Documented == {"connected", "waiting_qr", "disconnected"}
\* The values index.js assigns to status.
Assigned == Documented \cup {"initializing", "auth_failure", "failed"}

C27_SendOnlyWhenConnected ==
    /\ (ih.step = "send" /\ ih.called) =>
          (ih.statusPrev = "connected" /\ ih.clientPrev # NoClient)
    /\ (ih.step = "send" /\ ~ih.called) =>
          /\ ih.code = 400
          /\ ~(ih.statusPrev = "connected" /\ ih.clientPrev # NoClient)
    /\ (ih.step = "sent" /\ ih.code = 500) =>
          (status = ih.statusPrev /\ client = ih.clientPrev)

\* C27 witness: a sendMessage that failed and was answered 500 while the
\* client was connected.
C27_Witness ==
    /\ ih.step = "sent"
    /\ ih.code = 500
    /\ status = "connected"
    /\ client # NoClient

\* C31: initialize() is single-flight. initializing is true exactly when
\* initializePromise is set; a call made during an initialization starts no
\* attempt, creates no client and returns the promise in flight; an
\* initialization that ends, by success or by failure (status 'failed'),
\* resets both; and the next call starts a fresh attempt.
C31_InitializeIsSingleFlight ==
    /\ [](initializing <=> initializePromise # NoPromise)
    /\ [](ipc = "idle" => ~initializing)
    /\ [](ih.step = "initFailed" => (status = "failed" /\ ~initializing))
    /\ [][ih'.step = "initializeAgain" =>
            /\ inits' = inits /\ client' = client /\ ipc' = ipc
            /\ initializePromise' = initializePromise
            /\ ih'.returned = initializePromise]_vars
    /\ [][(~initializing /\ initializing') =>
            /\ inits' = inits + 1
            /\ initializePromise' = inits'
            /\ ipc' = "store" /\ status' = "initializing"]_vars

\* C31 witness: a second attempt, started after the first one ended, is in
\* flight and a call made meanwhile has returned its promise.
C31_Witness ==
    /\ ih.step = "initializeAgain"
    /\ inits = 2
    /\ ih.returned = 2
    /\ initializing

\* C32: restartClient() does not destroy a client while an initialize() is
\* in flight: it leaves its wait only when no initialization is running,
\* whether that one succeeded or failed, and only after the destroy does it
\* clear client and start a new attempt.
C32_NoDestroyWhileInitializing ==
    /\ [](rpc = "destroy" => (~initializing /\ restarting))
    /\ [][(rpc = "wait" /\ rpc' # "wait") => ~initializing]_vars
    /\ [][(rpc # "init" /\ rpc' = "init") =>
            /\ rpc = "destroy"
            /\ client' = NoClient
            /\ initializing' /\ inits' = inits + 1]_vars

\* C32 witness: client.destroy() has been called by a restart that was
\* triggered during an initialization and waited until it failed.
C32_Witness ==
    /\ ih.step = "destroy"
    /\ rpc = "destroy"
    /\ status = "failed"
    /\ client # NoClient

\* restartClient() with the awaited calls settling: the events of the
\* client, initialize() and restartClient(), without the routes;
\* store.init(), client.initialize() and client.destroy() settle, and a
\* restartClient() whose awaited promise has settled goes on.
NextRestart ==
    \/ IndexStart
    \/ InitializeAgain
    \/ \E ok \in BOOLEAN : StoreReady(ok)
    \/ \E ok \in BOOLEAN : ClientInitialized(ok)
    \/ OnQr
    \/ OnReady
    \/ OnAuthFailure
    \/ \E u \in Updates : OnConnectionUpdate(u)
    \/ RestartDestroy
    \/ RestartInitialize
    \/ RestartDone

SpecRestart ==
    /\ Init /\ [][NextRestart]_vars
    /\ WF_vars(\E ok \in BOOLEAN : StoreReady(ok))
    /\ WF_vars(\E ok \in BOOLEAN : ClientInitialized(ok))
    /\ WF_vars(RestartDestroy)
    /\ WF_vars(RestartInitialize)
    /\ WF_vars(RestartDone)

\* C33: at most one restart runs at a time: a trigger that arrives while
\* restarting is true destroys and initializes nothing; and every restart
\* that has started sets restarting back to false, whether the
\* initialization it awaits succeeded or failed.
C33_OneRestartAtATime ==
    /\ [](restarting <=> rpc # "idle")
    /\ [][(ih'.step = "trigger" /\ restarting) =>
            /\ restarting' /\ rpc' = rpc /\ awaited' = awaited
            /\ client' = client /\ inits' = inits
            /\ initializing' = initializing]_vars
    /\ restarting ~> ~restarting

\* C33 witness: a restart has ended, with restarting false again, after its
\* initialize() failed.
C33_Witness ==
    /\ ih.step = "restarted"
    /\ ~restarting
    /\ inits = 2
    /\ status = "failed"

\* C34: whatever the order of the qr and ready events, status 'connected'
\* goes with no QR code: GET /api/status never reports 'connected' with
\* hasQrCode true, and GET /api/qr hands out no QR code while connected.
C34_ConnectedHasNoQr == status = "connected" => qrCode = NoQr

\* ------------------------------------------- WhatsAppManager: initialize
\* WhatsAppManager (whatsapp-client.js): initialize(), logout() and the
\* auto-reconnect timer are followed from await to await, so calls can
\* overlap; the client's event handlers act on the manager whichever Client
\* object emits.
notManagerVars == <<coreVars, persistVars, simpleVars, healthVars, serverVars,
                    indexVars, lockVars,
                   configVars>>

\* A call that starts takes the first slot that is free.
Idle(c) ==
    /\ mcalls[c].at = "idle"
    /\ \A d \in Calls : d < c => mcalls[d].at # "idle"

\* this.isInitializing = true; this.client = new Client(...);
\* this.setupEventHandlers(); await this.client.initialize();
\* setupEventHandlers() returns early when handlersSetup is already true.
Construct(c, m) ==
    /\ created < MaxClients
    /\ created' = created + 1
    /\ manager' = [m EXCEPT !.client = created + 1, !.isInitializing = TRUE,
                            !.handlersSetup = TRUE]
    /\ wired' = IF m.handlersSetup THEN wired ELSE wired \cup {created + 1}
    /\ mcalls' = [mcalls EXCEPT ![c] = [at |-> "clientInit", target |-> created + 1]]

\* if (this.isInitializing) return;
\* if (this.client && this.status === 'connected') return;
PassesGuard(m) ==
    ~m.isInitializing /\ ~(m.client # 0 /\ m.status = "connected")

\* initialize() up to its first await: return at the guard; or
\* stopKeepAlive() and await this.client.destroy() of the existing client;
\* or construct the client.
Enter(c) ==
    IF ~PassesGuard(manager)
      THEN /\ mcalls' = [mcalls EXCEPT ![c] = IdleCall]
           /\ UNCHANGED <<manager, live, wired, created>>
      ELSE IF manager.client # 0
             THEN /\ mcalls' = [mcalls EXCEPT
                                  ![c] = [at |-> "destroy", target |-> manager.client]]
                  /\ manager' = [manager EXCEPT !.keepAlive = FALSE]
                  /\ UNCHANGED <<live, wired, created>>
             ELSE /\ Construct(c, manager)
                  /\ live' = live \cup {created + 1}

\* initialize() called at startup.
InitializeCall(c) ==
    /\ ~mh.started
    /\ Idle(c)
    /\ Enter(c)
    /\ mh' = [mh EXCEPT !.step = "other", !.started = TRUE]
    /\ UNCHANGED timers
    /\ UNCHANGED notManagerVars

\* await this.client.destroy() of the existing client has settled:
\* this.client = null; this.handlersSetup = false; and the new client is
\* constructed.
AfterDestroy(c) ==
    /\ mcalls[c].at = "destroy"
    /\ Construct(c, [manager EXCEPT !.client = 0, !.handlersSetup = FALSE])
    /\ live' = (live \ {mcalls[c].target}) \cup {created + 1}
    /\ mh' = [mh EXCEPT !.step = "other"]
    /\ UNCHANGED timers
    /\ UNCHANGED notManagerVars

\* await this.client.initialize() settles; on a rejection the catch block
\* resets isInitializing, client and handlersSetup.
ClientInitSettles(c, ok) ==
    /\ mcalls[c].at = "clientInit"
    /\ mcalls' = [mcalls EXCEPT ![c] = IdleCall]
    /\ IF ok
         THEN UNCHANGED <<manager, live>>
         ELSE /\ manager' = [manager EXCEPT !.isInitializing = FALSE,
                                            !.client = 0,
                                            !.handlersSetup = FALSE]
              /\ live' = live \ {mcalls[c].target}
    /\ mh' = [mh EXCEPT !.step = "other"]
    /\ UNCHANGED <<wired, created, timers>>
    /\ UNCHANGED notManagerVars

\* The events of a client that has the handlers: qr, authenticated,
\* auth_failure, ready.
StatusEvents == {"qr", "authenticated", "auth_failure", "ready"}
StatusAfter(e) ==
    CASE e = "qr" -> "waiting_qr"
      [] e = "authenticated" -> "authenticated"
      [] e = "auth_failure" -> "auth_failed"
      [] OTHER -> "connected"
\* The handlers of qr, authenticated, auth_failure and ready, with what they
\* assign after their await of the database; 'ready' throws at
\* this.client.info when this.client is null.
AfterEvent(m, e) ==
    CASE e = "qr" -> [m EXCEPT !.qrCode = "qr", !.status = StatusAfter(e)]
      [] e = "authenticated" -> [m EXCEPT !.status = StatusAfter(e)]
      [] e = "auth_failure" -> [m EXCEPT !.status = StatusAfter(e), !.qrCode = NoQr]
      [] OTHER ->
           IF m.client = 0
             THEN [m EXCEPT !.isInitializing = FALSE, !.status = StatusAfter(e)]
             ELSE [m EXCEPT !.isInitializing = FALSE, !.status = StatusAfter(e),
                            !.phoneNumber = "phone", !.qrCode = NoQr,
                            !.keepAlive = TRUE]
ManagerEvent(id, e) ==
    /\ id \in live \cap wired
    /\ manager' = AfterEvent(manager, e)
    /\ mh' = [mh EXCEPT !.step = "other"]
    /\ UNCHANGED <<live, wired, created, mcalls, timers>>
    /\ UNCHANGED notManagerVars

\* (variant: every 'disconnected' event is processed)
IgnoresMut(st) == FALSE
\* if (this.status !== 'connected' && this.status !== 'authenticated') return;
Ignores(st) == st # "connected" /\ st # "authenticated"

\* client.on('disconnected'): ignored unless status is 'connected' or
\* 'authenticated'; stops the keep-alive, assigns status, phoneNumber,
\* qrCode, isInitializing and handlersSetup (and not this.client);
\* schedules the auto-reconnect timer unless the reason is NAVIGATION or
\* LOGOUT. The client that emits it has closed its browser.
Reasons == {"NAVIGATION", "LOGOUT", "CONFLICT"}
Disconnected(id, reason) ==
    /\ id \in live \cap wired
    /\ live' = live \ {id}
    /\ IF ~Ignores(manager.status)
         THEN /\ manager' = [manager EXCEPT
                               !.keepAlive = FALSE,
                               !.status = "disconnected",
                               !.phoneNumber = NoPhone,
                               !.qrCode = NoQr,
                               !.isInitializing = FALSE,
                               !.handlersSetup = FALSE]
              /\ IF reason \notin {"NAVIGATION", "LOGOUT"}
                   THEN /\ timers < MaxTimers
                        /\ timers' = timers + 1
                        /\ mh' = [mh EXCEPT !.step = "other",
                                            !.interfered = FALSE]
                   ELSE /\ timers' = timers
                        /\ mh' = [mh EXCEPT !.step = "other"]
         ELSE /\ UNCHANGED <<manager, timers>>
              /\ mh' = [mh EXCEPT !.step = "ignored"]
    /\ UNCHANGED <<wired, created, mcalls>>
    /\ UNCHANGED notManagerVars

\* The keep-alive interval ticks:
\* if (this.status !== 'connected' || !this.client) this.stopKeepAlive();
KeepAliveTick ==
    /\ manager.keepAlive
    /\ manager' = [manager EXCEPT
                     !.keepAlive = manager.status = "connected" /\ manager.client # 0]
    /\ mh' = [mh EXCEPT !.step = "other"]
    /\ UNCHANGED <<live, wired, created, mcalls, timers>>
    /\ UNCHANGED notManagerVars

\* The auto-reconnect timer fires after its 5 seconds:
\* if (this.status === 'disconnected' && !this.isInitializing && !this.client)
\*     await this.initialize();
TimerFire(c) ==
    /\ timers > 0
    /\ Idle(c)
    /\ timers' = timers - 1
    /\ IF manager.status = "disconnected" /\ ~manager.isInitializing
          /\ manager.client = 0
         THEN /\ Enter(c)
              /\ mh' = [mh EXCEPT !.step = "timer", !.timer = "reconnect"]
         ELSE /\ UNCHANGED <<manager, live, wired, created, mcalls>>
              /\ mh' = [mh EXCEPT !.step = "timer", !.timer = "skipped"]
    /\ UNCHANGED notManagerVars

\* logout(): await this.client.logout(); await this.client.destroy();
LogoutCall(c) ==
    /\ mh.started
    /\ Idle(c)
    /\ mcalls' = [mcalls EXCEPT ![c] = [at |-> "logout", target |-> manager.client]]
    /\ mh' = [mh EXCEPT !.step = "other", !.interfered = TRUE]
    /\ UNCHANGED <<manager, live, wired, created, timers>>
    /\ UNCHANGED notManagerVars

\* logout(): the client is logged out and destroyed; status, isInitializing
\* and handlersSetup are reset (this.client is not) and
\* database.deleteSession is awaited.
LogoutCleanup(c) ==
    /\ mcalls[c].at = "logout"
    /\ live' = live \ {mcalls[c].target}
    /\ manager' = [manager EXCEPT !.status = "disconnected",
                                  !.phoneNumber = NoPhone,
                                  !.qrCode = NoQr,
                                  !.isInitializing = FALSE,
                                  !.handlersSetup = FALSE]
    /\ mcalls' = [mcalls EXCEPT ![c] = [at |-> "reinitialize", target |-> 0]]
    /\ mh' = [mh EXCEPT !.step = "other"]
    /\ UNCHANGED <<wired, created, timers>>
    /\ UNCHANGED notManagerVars

\* logout(): await this.initialize();
LogoutInitialize(c) ==
    /\ mcalls[c].at = "reinitialize"
    /\ Enter(c)
    /\ mh' = [mh EXCEPT !.step = "other"]
    /\ UNCHANGED timers
    /\ UNCHANGED notManagerVars

\* destroy(): the client is destroyed and the manager reset.
Destroy ==
    /\ mh.started
    /\ manager.client # 0
    /\ live' = live \ {manager.client}
    /\ manager' = NewManager
    /\ mh' = [mh EXCEPT !.step = "other", !.interfered = TRUE]
    /\ UNCHANGED <<wired, created, mcalls, timers>>
    /\ UNCHANGED notManagerVars

NextManager ==
    \/ \E c \in Calls : InitializeCall(c)
    \/ \E c \in Calls : AfterDestroy(c)
    \/ \E c \in Calls, ok \in BOOLEAN : ClientInitSettles(c, ok)
    \/ \E id \in 1..MaxClients, e \in StatusEvents : ManagerEvent(id, e)
    \/ \E id \in 1..MaxClients, reason \in Reasons : Disconnected(id, reason)
    \/ \E c \in Calls : TimerFire(c)
    \/ KeepAliveTick
    \/ \E c \in Calls : LogoutCall(c)
    \/ \E c \in Calls : LogoutCleanup(c)
    \/ \E c \in Calls : LogoutInitialize(c)
    \/ Destroy

SpecManager == Init /\ [][NextManager]_vars

\* C24: an auto-reconnect timer that fires, with no destroy() or logout()
\* called since the 'disconnected' that scheduled it, calls initialize() (and
\* so creates a new client).
C24_AutoReconnects ==
    (mh.step = "timer" /\ ~mh.interfered) => mh.timer = "reconnect"

\* C29: at most one Client object is alive at any time.
C29_SingleLiveClient == Cardinality(live) <= 1

\* C35: once 'ready' has set status to 'connected', only a 'disconnected'
\* or 'auth_failure' event, destroy() or logout() takes the manager out of
\* 'connected'; no other event of the library does, a repeated
\* 'authenticated' included.
C35_ConnectedUntilDisconnected ==
    [][(manager.status = "connected" /\ manager'.status # "connected") =>
          \/ \E id \in 1..MaxClients, reason \in Reasons : Disconnected(id, reason)
          \/ \E id \in 1..MaxClients : ManagerEvent(id, "auth_failure")
          \/ \E c \in Calls : LogoutCleanup(c)
          \/ Destroy]_vars

\* The event handlers of WhatsAppManager without logout(): initialize() at
\* startup, the events of the clients, the timers and destroy().
NextHandlers ==
    \/ \E c \in Calls : InitializeCall(c)
    \/ \E c \in Calls, ok \in BOOLEAN : ClientInitSettles(c, ok)
    \/ \E id \in 1..MaxClients, e \in StatusEvents : ManagerEvent(id, e)
    \/ \E id \in 1..MaxClients, reason \in Reasons : Disconnected(id, reason)
    \/ \E c \in Calls : TimerFire(c)
    \/ KeepAliveTick
    \/ Destroy

SpecHandlers == Init /\ [][NextHandlers]_vars

\* C36: a 'disconnected' event that arrives when status is neither
\* 'connected' nor 'authenticated' leaves status, phoneNumber, qrCode,
\* isInitializing, handlersSetup and the keep-alive timer as they are and
\* schedules no reconnect; in the two other statuses it is processed.
C36_DisconnectedIgnoredUnlessConnected ==
    [][\A id \in 1..MaxClients, reason \in Reasons :
          Disconnected(id, reason) =>
             IF manager.status \in {"connected", "authenticated"}
               THEN manager'.status = "disconnected" /\ ~manager'.keepAlive
               ELSE manager' = manager /\ timers' = timers]_vars

\* C36 witness: a 'disconnected' event has been ignored while the manager
\* waited for the QR code to be scanned.
C36_Witness ==
    /\ mh.step = "ignored"
    /\ manager.status = "waiting_qr"
    /\ manager.qrCode = "qr"
    /\ timers = 0

\* --------------------------------------------- database.js: webhook URL
\* setWebhookUrl and getWebhookUrl of DatabaseManager, each with its one
\* query; the column id is SERIAL, so an INSERT that gives no id takes the
\* next value of the sequence.
notConfigVars == <<coreVars, persistVars, simpleVars, healthVars, serverVars,
                   indexVars, managerVars, lockVars>>

Active(table) == {r \in table : r.active}

\* INSERT INTO webhook_config (webhook_url, is_active, updated_at)
\* VALUES ($1, true, ...) ON CONFLICT (id) DO UPDATE SET webhook_url = $1,
\* is_active = true
InsertConfig(table, id, url) ==
    IF \E r \in table : r.id = id
      THEN {IF r.id = id THEN [r EXCEPT !.url = url, !.active = TRUE] ELSE r :
              r \in table}
      ELSE table \cup {[id |-> id, url |-> url, active |-> TRUE]}

\* setWebhookUrl(url): returns at once when not connected; throws when the
\* query fails.
SetWebhookUrl(url) ==
    /\ webhookSeq < MaxConfigs
    /\ IF ~isConnected
         THEN /\ glast' = [glast EXCEPT !.op = "set", !.out = "skipped", !.url = url]
              /\ UNCHANGED <<webhookConfig, webhookSeq>>
         ELSE IF ~dbUp
                THEN /\ glast' = [glast EXCEPT !.op = "set", !.out = "thrown",
                                               !.url = url]
                     /\ UNCHANGED <<webhookConfig, webhookSeq>>
                ELSE /\ webhookSeq' = webhookSeq + 1
                     /\ webhookConfig' = InsertConfig(webhookConfig, webhookSeq + 1, url)
                     /\ glast' = [op |-> "set", out |-> "returned", url |-> url,
                                  latest |-> url]
    /\ UNCHANGED notConfigVars

\* getWebhookUrl(): SELECT webhook_url FROM webhook_config WHERE is_active =
\* true LIMIT 1, with no ORDER BY: any one of the active rows; null when not
\* connected, when the query fails and when no row is active.
GetWebhookUrl(url) ==
    /\ IF isConnected /\ dbUp /\ Active(webhookConfig) # {}
         THEN /\ \E r \in Active(webhookConfig) : r.url = url
              /\ glast' = [glast EXCEPT !.op = "get", !.out = "returned", !.url = url]
         ELSE /\ url = NoUrl
              /\ glast' = [glast EXCEPT
                             !.op = "get",
                             !.out = IF isConnected /\ dbUp THEN "returned" ELSE "null",
                             !.url = NoUrl]
    /\ UNCHANGED <<webhookConfig, webhookSeq>>
    /\ UNCHANGED notConfigVars

NextConfig ==
    \/ \E url \in Urls : SetWebhookUrl(url)
    \/ \E url \in Urls \cup {NoUrl} : GetWebhookUrl(url)
    \/ Connect
    \/ Close
    \/ DbToggle

SpecConfig == Init /\ [][NextConfig]_vars

\* C37: with the database connected the webhook URL is last-write-wins:
\* getWebhookUrl() returns the URL of the last setWebhookUrl that succeeded,
\* and at most one webhook configuration is active.
C37_WebhookLastWriteWins ==
    /\ Cardinality(Active(webhookConfig)) <= 1
    /\ (glast.op = "get" /\ glast.out = "returned" /\ glast.latest # NoUrl) =>
          glast.url = glast.latest

\* ------------------------------------------- lock-manager.js: session lock
\* acquireLock() of each process is followed from one file-system call to
\* the next (existsSync, statSync, unlinkSync, writeFileSync with flag wx);
\* the calls of different processes interleave, and the clock advances.
notLockVars == <<coreVars, persistVars, simpleVars, healthVars, serverVars,
                 indexVars, managerVars,
                   configVars>>

\* if (now - modifiedTime > STALE_THRESHOLD)
IsStale(age) == age > StaleTicks

Returned(p, out) == [proc |-> p, out |-> out, holder |-> p \in holders]

\* if (fs.existsSync(LOCK_FILE))
AcquireStart(p) ==
    /\ lpc[p] = "idle"
    /\ p \notin holders
    /\ lpc' = [lpc EXCEPT ![p] = IF lockFile.exists THEN "stat" ELSE "write"]
    /\ UNCHANGED <<lockFile, holders, lh>>
    /\ UNCHANGED notLockVars

\* const stats = fs.statSync(LOCK_FILE): throws ENOENT when the file has
\* been removed since; a recent file makes acquireLock return false.
AcquireStat(p) ==
    /\ lpc[p] = "stat"
    /\ IF ~lockFile.exists
         THEN /\ lpc' = [lpc EXCEPT ![p] = "idle"]
              /\ lh' = Returned(p, "thrown")
         ELSE IF IsStale(lockFile.age)
                THEN /\ lpc' = [lpc EXCEPT ![p] = "unlink"]
                     /\ lh' = lh
                ELSE /\ lpc' = [lpc EXCEPT ![p] = "idle"]
                     /\ lh' = Returned(p, "false")
    /\ UNCHANGED <<lockFile, holders>>
    /\ UNCHANGED notLockVars

\* fs.unlinkSync(LOCK_FILE): removes the file that is there now, or throws
\* ENOENT.
AcquireUnlink(p) ==
    /\ lpc[p] = "unlink"
    /\ IF lockFile.exists
         THEN /\ lockFile' = NoLock
              /\ lpc' = [lpc EXCEPT ![p] = "write"]
              /\ lh' = lh
         ELSE /\ lockFile' = lockFile
              /\ lpc' = [lpc EXCEPT ![p] = "idle"]
              /\ lh' = Returned(p, "thrown")
    /\ UNCHANGED holders
    /\ UNCHANGED notLockVars

\* fs.writeFileSync(LOCK_FILE, ..., { flag: 'wx' }): creates the file and
\* acquireLock returns true, or EEXIST and it returns false.
AcquireWrite(p) ==
    /\ lpc[p] = "write"
    /\ lpc' = [lpc EXCEPT ![p] = "idle"]
    /\ IF lockFile.exists
         THEN /\ UNCHANGED <<lockFile, holders>>
              /\ lh' = Returned(p, "false")
         ELSE /\ lockFile' = [exists |-> TRUE, age |-> 0, owner |-> p]
              /\ holders' = holders \cup {p}
              /\ lh' = Returned(p, "true")
    /\ UNCHANGED notLockVars

\* releaseLock(): if (fs.existsSync(LOCK_FILE)) fs.unlinkSync(LOCK_FILE)
ReleaseLock(p) ==
    /\ lpc[p] = "idle"
    /\ holders' = holders \ {p}
    /\ lockFile' = NoLock
    /\ lh' = Returned(p, "released")
    /\ UNCHANGED lpc
    /\ UNCHANGED notLockVars

\* Time passes: the lock file gets older (nothing rewrites it).
Tick ==
    /\ lockFile.exists
    /\ lockFile.age <= StaleTicks
    /\ lockFile' = [lockFile EXCEPT !.age = @ + 1]
    /\ UNCHANGED <<lpc, holders, lh>>
    /\ UNCHANGED notLockVars

\* releaseLock() called by a process that holds the lock.
ReleaseOwnLock(p) == p \in holders /\ ReleaseLock(p)

NextLock ==
    \/ \E p \in Procs : AcquireStart(p)
    \/ \E p \in Procs : AcquireStat(p)
    \/ \E p \in Procs : AcquireUnlink(p)
    \/ \E p \in Procs : AcquireWrite(p)
    \/ \E p \in Procs : ReleaseOwnLock(p)
    \/ Tick

\* The processes release the lock they hold.
SpecLock == Init /\ [][NextLock]_vars

\* Any process may call releaseLock(), also one that does not hold the lock.
NextRelease ==
    \/ \E p \in Procs : AcquireStart(p)
    \/ \E p \in Procs : AcquireStat(p)
    \/ \E p \in Procs : AcquireUnlink(p)
    \/ \E p \in Procs : AcquireWrite(p)
    \/ \E p \in Procs : ReleaseLock(p)
    \/ Tick

SpecRelease == Init /\ [][NextRelease]_vars

\* C30: at most one process holds the session lock, whatever the
\* interleaving of the steps of acquireLock and however much time passes;
\* the lock file of a process that holds the lock is not replaced.
C30_LockIsExclusive ==
    /\ Cardinality(holders) <= 1
    /\ holders # {} => (lockFile.exists /\ lockFile.owner \in holders)

\* C39: releaseLock() releases only the caller's own lock: after a call by
\* a process that does not hold the lock, the lock file of the process that
\* holds it is still there (so that one more acquireLock() returns false).
C39_ReleaseOnlyOwnLock ==
    (lh.out = "released" /\ ~lh.holder /\ holders # {}) => lockFile.exists

====
